---- MODULE Spec2Model ----
(***************************************************************************)
(* Verification model of the synchronisation core of maestral              *)
(* (src/maestral/sync.py).                                                 *)
(*                                                                         *)
(* The module holds several specifications over one set of variables:      *)
(*   Spec        the monitor: the user's start/pause/resume/stop calls     *)
(*               interleaved with the five worker threads;                 *)
(*   SpecIndex   the revision index (set_local_rev, clear_rev_index);      *)
(*   SpecNorm    the normaliser of local events (_clean_local_events and   *)
(*               the clean-up of wait_for_local_changes);                  *)
(*   SpecDown    apply_remote_changes;                                     *)
(*   SpecUp      apply_local_changes;                                      *)
(*   SpecHandler FileEventHandler.on_any_event.                            *)
(* A specification leaves the variables of the other parts at their        *)
(* initial values.                                                         *)
(***************************************************************************)
EXTENDS Integers, Sequences, FiniteSets, TLC

\* ------------------------------------------------------------------ bounds

\* start() calls that create a generation of worker threads
MaxStarts == 1
\* events of a run: a call of the user on the monitor (start, pause, resume,
\* stop) counts one, a remote call that fails counts two
MaxEvents == 3
\* remote calls that fail (with a ConnectionError or a fatal error)
MaxFaults == 1
\* paths the user newly includes in the sync
MaxItems == 1

\* segments of the longest path of the revision index
MaxDepth == 2
\* calls made on the revision index
MaxIndexOps == 3

\* entries of one list of remote changes
MaxEntries == 2
\* cursors handed out by the server
MaxCursor == 2
\* calls of get_remote_item and get_remote_folder
MaxFetches == 1

\* events of one burst of local events over several paths
MaxBurst == 3
\* events of one burst of local events that make up the history of one path
MaxHistory == 4

\* events the handler lets through to the queue
MaxQueued == 2
\* items the handler renames because of a case conflict
MaxRenames == 1

\* local events the upload worker retrieves in total
MaxUpEvents == 2
\* time stamps the upload worker takes
MaxClock == 2
\* the largest time stamp of a local item and of a path's last sync
MaxTime == 2
\* processes that use the lock of one configuration, and threads in each
MaxProcs == 2
MaxProcThreads == 2
\* events of a batch whose call of the server finds an item or fails
MaxContended == 1
\* retries of a failed download
MaxRetries == 1
\* edits of local items and calls of _create_local_entry on them
MaxDiskOps == 3

\* ------------------------------------------------------- monitor: state

VARIABLES
    syncing,          \* Event MaestralMonitor.syncing
    startup,          \* Event MaestralMonitor.startup
    connected,        \* Event MaestralMonitor.connected
    paused_by_user,   \* Event MaestralMonitor.paused_by_user
    running,          \* the Event objects bound to MaestralMonitor.running, one per start()
    gen,              \* index of the Event self.running currently refers to
    lock,             \* holder of UpDownSync.lock, or NoThread
    pc,               \* position of every thread
    faults,           \* failures of remote calls injected so far
    ops,              \* user calls made so far
    queued_newly_included_downloads,  \* paths waiting for the added-item worker
    pending_downloads,                \* SyncStateSet 'pending_downloads'
    dbx_path,         \* the path an added-item worker took from the queue (0: none)
    last_cursor,      \* state 'sync.cursor': 0 stands for '', n > 0 for a cursor
    rev_dict_cache,   \* UpDownSync._rev_dict_cache: lower-case path -> rev
    index_ops,        \* calls made on the revision index so far
    remote_cursor,    \* the latest cursor the server has handed out
    changes,          \* the result of list_remote_changes that is in flight
    excluded_items,   \* UpDownSync.excluded_items
    sync_errors,      \* UpDownSync.sync_errors: the dbx_path of each queued error
    download_errors,  \* UpDownSync.download_errors
    queued_for_download,  \* UpDownSync.queued_for_download, as a set
    apply_result,     \* what the last call of apply_remote_changes returned
    mignore_rules,    \* UpDownSync.mignore_rules: the patterns, each a plain name
    local_file_event_queue,  \* the queue between the event handler and the uploader
    burst,            \* the events the last wait_for_local_changes retrieved
    cleaned,          \* what _clean_local_events returned in that call
    local_changes,    \* the events that call returned
    queue_downloading,    \* the local paths whose events are to be ignored, as a set
    renamed_items_cache,  \* FileEventHandler._renamed_items_cache
    fs_events,        \* moves made by the handler that the observer has yet to report
    now,              \* the time stamp of the last retrieval of local events
    retrieved,        \* the number of raw events the upload worker has retrieved
    up_batch,         \* the (events, local_cursor) the upload worker has in hand
    last_sync,        \* state 'sync.lastsync'
    queued_for_upload,    \* UpDownSync.queued_for_upload, as a set
    upload_results,   \* what each _apply_event of the last batch returned, in order
    upload_raised,    \* whether an exception left that apply_local_changes
    last_sync_for_path,   \* UpDownSync._last_sync_for_path
    conflict_check,   \* the last call of check_download_conflict and what it returned
    round_trip,       \* the last _apply_event, and the _create_local_entry after it
    internal_lock,    \* Lock._internal_lock of every process: the value of the semaphore
    external_acquired,    \* Lock._external_lock.acquired of every process
    file_lock,        \* the process that holds the lock of the lock file, or NoProc
    instance_lock,    \* Lock._lock of every process: the thread inside one of its methods
    daemon_pc,        \* where every thread is in start_maestral_daemon or Lock.locked
    lock_result,      \* what the last call on the lock returned, and to whom
    \* the local Dropbox folder
    dropbox_path_isdir,  \* osp.isdir(sync.dropbox_path)
    \* the items of the local Dropbox folder
    local_items,      \* what is at every local path
    create_call,      \* the last call of _create_local_entry, with the disk around it
    \* downloads of single items and folders
    fetch_call        \* the last call of get_remote_item or get_remote_folder

monVars == <<syncing, startup, connected, paused_by_user, running, gen, lock, pc,
             faults, ops, queued_newly_included_downloads, pending_downloads,
             dbx_path>>

\* the variables of the other parts of the model
indexVars == <<rev_dict_cache, index_ops>>

downVars == <<remote_cursor, changes, excluded_items, sync_errors, download_errors,
              queued_for_download, apply_result>>

normVars == <<mignore_rules, local_file_event_queue, burst, cleaned, local_changes>>

handlerVars == <<queue_downloading, renamed_items_cache, fs_events>>

upVars == <<now, retrieved, up_batch, last_sync, queued_for_upload, upload_results,
            upload_raised>>

conflictVars == <<last_sync_for_path, conflict_check>>

roundVars == <<round_trip>>

daemonVars == <<internal_lock, external_acquired, file_lock, instance_lock, daemon_pc,
                lock_result>>

rootVars == <<dropbox_path_isdir>>

diskVars == <<local_items, create_call>>

fetchVars == <<fetch_call>>

\* the parts other than the monitor and the local Dropbox folder
partVars == <<indexVars, downVars, normVars, handlerVars, upVars, conflictVars,
             roundVars, daemonVars>>

otherVars == <<partVars, rootVars, diskVars, fetchVars>>

vars == <<monVars, last_cursor, otherVars>>

Roles == {"conn", "startup", "up", "down", "added"}

Gens == 1..MaxStarts

User == <<0, "user">>

Workers == Gens \X Roles

Threads == {User} \cup Workers

NoThread == <<0, "none">>

\* Labels at which a worker executes inside `with sync.lock:`
BatchLabels == {"s_batch1", "s_chk1", "s_batch2", "s_chk2", "d_batch", "a_batch", "u_batch"}

InBatch(t) == pc[t] \in BatchLabels

Goto(t, l) == pc' = [pc EXCEPT ![t] = l]

Items == 1..MaxItems

flagVars == <<syncing, startup, connected, paused_by_user, running>>
envVars == <<faults>>
itemVars == <<queued_newly_included_downloads, pending_downloads, dbx_path>>

Acquire(t) == lock = NoThread /\ lock' = t

Release(t) == lock' = NoThread

\* A remote call fails (the failures are counted), or it does not.
Events == ops + 2 * faults

Fails == faults < MaxFaults /\ Events + 2 <= MaxEvents /\ faults' = faults + 1

NoFault == UNCHANGED faults

\* ---------------------------------------------------- monitor: environment

\* A path is newly included in the sync and queued for the added-item worker.
Include(i) ==
    /\ i \notin queued_newly_included_downloads
    /\ i \notin pending_downloads
    /\ queued_newly_included_downloads' = queued_newly_included_downloads \cup {i}
    /\ UNCHANGED <<flagVars, gen, lock, pc, ops, envVars, pending_downloads, dbx_path,
                   last_cursor>>
    /\ UNCHANGED otherVars

\* ------------------------------------------------- monitor: worker threads

FirstLabel(role) ==
    CASE role = "conn" -> "c_probe"
      [] role = "startup" -> "s_wait"
      [] role = "down" -> "d_wait"
      [] role = "added" -> "a_wait"
      [] role = "up" -> "u_wait"

\* `while running.is_set():` of every worker; the startup worker clears
\* `startup` when it leaves the loop.
WorkerLoop(t) ==
    /\ pc[t] = "loop"
    /\ IF running[t[1]]
         THEN Goto(t, FirstLabel(t[2]))
         ELSE Goto(t, IF t[2] = "startup" THEN "s_exit" ELSE "done")
    /\ UNCHANGED <<flagVars, gen, lock, envVars, ops, itemVars, last_cursor>>
    /\ UNCHANGED otherVars

\* except ConnectionError: syncing.clear()
OnConnectionError1(t) ==
    /\ pc[t] = "e_conn1"
    /\ syncing' = FALSE
    /\ Goto(t, "e_conn2")
    /\ UNCHANGED <<startup, connected, paused_by_user, running, gen, lock, envVars, ops,
                   itemVars, last_cursor>>
    /\ UNCHANGED otherVars

\* except ConnectionError: connected.clear()
OnConnectionError2(t) ==
    /\ pc[t] = "e_conn2"
    /\ connected' = FALSE
    /\ Goto(t, "loop")
    /\ UNCHANGED <<syncing, startup, paused_by_user, running, gen, lock, envVars, ops,
                   itemVars, last_cursor>>
    /\ UNCHANGED otherVars

\* except DropboxAuthError / MaestralApiError / Exception: running.clear()
OnFatalError1(t) ==
    /\ pc[t] = "e_fatal1"
    /\ running' = [running EXCEPT ![t[1]] = FALSE]
    /\ Goto(t, "e_fatal2")
    /\ UNCHANGED <<syncing, startup, connected, paused_by_user, gen, lock, envVars, ops,
                   itemVars, last_cursor>>
    /\ UNCHANGED otherVars

\* except DropboxAuthError / MaestralApiError / Exception: syncing.clear()
OnFatalError2(t) ==
    /\ pc[t] = "e_fatal2"
    /\ syncing' = FALSE
    /\ Goto(t, "loop")
    /\ UNCHANGED <<startup, connected, paused_by_user, running, gen, lock, envVars, ops,
                   itemVars, last_cursor>>
    /\ UNCHANGED otherVars

\* connection_helper: sync.client.get_space_usage()
ConnProbe(t) ==
    /\ pc[t] = "c_probe"
    /\ \/ NoFault /\ Goto(t, "c_chk_connected")
       \/ Fails /\ Goto(t, "e_conn1")
       \/ Fails /\ Goto(t, "e_fatal1")
    /\ UNCHANGED <<flagVars, gen, lock, ops, itemVars, last_cursor>>
    /\ UNCHANGED otherVars

\* connection_helper: `if not connected.is_set() and not paused_by_user.is_set()`,
\* the two flags are read one after the other
ConnCheckConnected(t) ==
    /\ pc[t] = "c_chk_connected"
    /\ Goto(t, IF connected THEN "c_set_connected" ELSE "c_chk_paused")
    /\ UNCHANGED <<flagVars, gen, lock, envVars, ops, itemVars, last_cursor>>
    /\ UNCHANGED otherVars

ConnCheckPaused(t) ==
    /\ pc[t] = "c_chk_paused"
    /\ Goto(t, IF paused_by_user THEN "c_set_connected" ELSE "c_set_startup")
    /\ UNCHANGED <<flagVars, gen, lock, envVars, ops, itemVars, last_cursor>>
    /\ UNCHANGED otherVars

\* connection_helper: startup.set()
ConnSetStartup(t) ==
    /\ pc[t] = "c_set_startup"
    /\ startup' = TRUE
    /\ Goto(t, "c_set_connected")
    /\ UNCHANGED <<syncing, connected, paused_by_user, running, gen, lock, envVars, ops,
                   itemVars, last_cursor>>
    /\ UNCHANGED otherVars

\* connection_helper: connected.set(); time.sleep(check_interval)
ConnSetConnected(t) ==
    /\ pc[t] = "c_set_connected"
    /\ connected' = TRUE
    /\ Goto(t, "loop")
    /\ UNCHANGED <<syncing, startup, paused_by_user, running, gen, lock, envVars, ops,
                   itemVars, last_cursor>>
    /\ UNCHANGED otherVars

\* startup_worker: startup.wait()
StartupWait(t) ==
    /\ pc[t] = "s_wait"
    /\ startup
    /\ Goto(t, "s_assert")
    /\ UNCHANGED <<flagVars, gen, lock, envVars, ops, itemVars, last_cursor>>
    /\ UNCHANGED otherVars

\* startup_worker: `assert not syncing.is_set()`, outside the try block: a
\* failed assertion ends the thread
StartupAssert(t) ==
    /\ pc[t] = "s_assert"
    /\ Goto(t, IF syncing THEN "crashed" ELSE "s_lock")
    /\ UNCHANGED <<flagVars, gen, lock, envVars, ops, itemVars, last_cursor>>
    /\ UNCHANGED otherVars

\* startup_worker: `with sync.lock:`
StartupLock(t) ==
    /\ pc[t] = "s_lock"
    /\ Acquire(t)
    /\ Goto(t, "s_batch1")
    /\ UNCHANGED <<flagVars, gen, envVars, ops, itemVars, last_cursor>>
    /\ UNCHANGED otherVars

\* startup_worker: the initial download when last_cursor == ''
StartupInitialDownload(t) ==
    /\ pc[t] = "s_batch1"
    /\ IF last_cursor # 0
         THEN NoFault /\ Goto(t, "s_chk1") /\ UNCHANGED <<lock, last_cursor>>
         ELSE \/ NoFault /\ last_cursor' = 1 /\ Goto(t, "s_chk1") /\ UNCHANGED lock
              \/ Fails /\ Release(t) /\ Goto(t, "e_conn1") /\ UNCHANGED last_cursor
              \/ Fails /\ Release(t) /\ Goto(t, "e_fatal1") /\ UNCHANGED last_cursor
    /\ UNCHANGED <<flagVars, gen, ops, itemVars>>
    /\ UNCHANGED otherVars

\* startup_worker: first `if not running.is_set(): continue` (leaves the with block)
StartupCheckRunning1(t) ==
    /\ pc[t] = "s_chk1"
    /\ IF running[t[1]]
         THEN Goto(t, "s_batch2") /\ UNCHANGED lock
         ELSE Release(t) /\ Goto(t, "loop")
    /\ UNCHANGED <<flagVars, gen, envVars, ops, itemVars, last_cursor>>
    /\ UNCHANGED otherVars

\* startup_worker: get_remote_item for download_errors and pending_downloads, then
\* upload_local_changes_while_inactive, which calls ensure_dropbox_folder_present
\* when the local folder cannot be indexed
StartupRetryAndUpload(t) ==
    /\ pc[t] = "s_batch2"
    /\ \/ /\ NoFault
          /\ pending_downloads' = {}
          /\ IF dropbox_path_isdir
               THEN Goto(t, "s_chk2") /\ UNCHANGED lock
               ELSE Release(t) /\ Goto(t, "e_fatal1")
       \/ Fails /\ Release(t) /\ Goto(t, "e_conn1") /\ UNCHANGED pending_downloads
       \/ Fails /\ Release(t) /\ Goto(t, "e_fatal1") /\ UNCHANGED pending_downloads
    /\ UNCHANGED <<flagVars, gen, ops, queued_newly_included_downloads, dbx_path,
                   last_cursor>>
    /\ UNCHANGED otherVars

\* startup_worker: second `if not running.is_set(): continue`; otherwise the with
\* block ends
StartupCheckRunning2(t) ==
    /\ pc[t] = "s_chk2"
    /\ Release(t)
    /\ Goto(t, IF running[t[1]] THEN "s_chk_paused" ELSE "loop")
    /\ UNCHANGED <<flagVars, gen, envVars, ops, itemVars, last_cursor>>
    /\ UNCHANGED otherVars

\* startup_worker: `if not paused_by_user.is_set():`
StartupCheckPaused(t) ==
    /\ pc[t] = "s_chk_paused"
    /\ Goto(t, IF paused_by_user THEN "s_clr_startup" ELSE "s_set_syncing")
    /\ UNCHANGED <<flagVars, gen, lock, envVars, ops, itemVars, last_cursor>>
    /\ UNCHANGED otherVars

\* startup_worker: syncing.set()
StartupSetSyncing(t) ==
    /\ pc[t] = "s_set_syncing"
    /\ syncing' = TRUE
    /\ Goto(t, "s_clr_startup")
    /\ UNCHANGED <<startup, connected, paused_by_user, running, gen, lock, envVars, ops,
                   itemVars, last_cursor>>
    /\ UNCHANGED otherVars

\* startup_worker: startup.clear() at the end of the loop body
StartupClearStartup(t) ==
    /\ pc[t] = "s_clr_startup"
    /\ startup' = FALSE
    /\ Goto(t, "loop")
    /\ UNCHANGED <<syncing, connected, paused_by_user, running, gen, lock, envVars, ops,
                   itemVars, last_cursor>>
    /\ UNCHANGED otherVars

\* startup_worker: startup.clear() after the loop
StartupExit(t) ==
    /\ pc[t] = "s_exit"
    /\ startup' = FALSE
    /\ Goto(t, "done")
    /\ UNCHANGED <<syncing, connected, paused_by_user, running, gen, lock, envVars, ops,
                   itemVars, last_cursor>>
    /\ UNCHANGED otherVars

\* download_worker, download_worker_added_item, upload_worker: syncing.wait()
SyncingWait(t) ==
    /\ pc[t] \in {"d_wait", "a_wait", "u_wait"}
    /\ syncing
    /\ Goto(t, CASE pc[t] = "d_wait" -> "d_poll"
                 [] pc[t] = "a_wait" -> "a_get"
                 [] pc[t] = "u_wait" -> "u_collect")
    /\ UNCHANGED <<flagVars, gen, lock, envVars, ops, itemVars, last_cursor>>
    /\ UNCHANGED otherVars

\* the two reads of `if not (running.is_set() and syncing.is_set()): continue`
CheckRunning(t) ==
    /\ pc[t] \in {"d_chk_running", "u_chk_running"}
    /\ Goto(t, IF ~running[t[1]] THEN "loop"
               ELSE IF pc[t] = "d_chk_running" THEN "d_chk_syncing" ELSE "u_chk_syncing")
    /\ UNCHANGED <<flagVars, gen, lock, envVars, ops, itemVars, last_cursor>>
    /\ UNCHANGED otherVars

CheckSyncing(t) ==
    /\ pc[t] \in {"d_chk_syncing", "u_chk_syncing"}
    /\ Goto(t, IF ~syncing THEN "loop"
               ELSE IF pc[t] = "d_chk_syncing" THEN "d_lock" ELSE "u_lock")
    /\ UNCHANGED <<flagVars, gen, lock, envVars, ops, itemVars, last_cursor>>
    /\ UNCHANGED otherVars

\* download_worker: sync.wait_for_remote_changes(sync.last_cursor, timeout=30)
DownloadPoll(t) ==
    /\ pc[t] = "d_poll"
    /\ \/ NoFault /\ Goto(t, "d_chk_running")    \* has_changes
       \/ NoFault /\ Goto(t, "loop")             \* no changes
       \/ Fails /\ Goto(t, "e_conn1")
       \/ Fails /\ Goto(t, "e_fatal1")
    /\ UNCHANGED <<flagVars, gen, lock, ops, itemVars, last_cursor>>
    /\ UNCHANGED otherVars

\* download_worker: `with sync.lock:`
DownloadLock(t) ==
    /\ pc[t] = "d_lock"
    /\ Acquire(t)
    /\ Goto(t, "d_batch")
    /\ UNCHANGED <<flagVars, gen, envVars, ops, itemVars, last_cursor>>
    /\ UNCHANGED otherVars

\* download_worker: list_remote_changes, apply_remote_changes, notify_user; for a
\* FolderMetadata among the changes _create_local_entry calls
\* os.makedirs(local_path), which creates the missing parent folders as well
DownloadBatch(t) ==
    /\ pc[t] = "d_batch"
    /\ Release(t)
    /\ \/ /\ NoFault /\ last_cursor' = 1 /\ Goto(t, "loop")
          /\ \E has_folder \in BOOLEAN :
               dropbox_path_isdir' = (dropbox_path_isdir \/ has_folder)
       \/ Fails /\ Goto(t, "e_conn1") /\ UNCHANGED <<last_cursor, rootVars>>
       \/ Fails /\ Goto(t, "e_fatal1") /\ UNCHANGED <<last_cursor, rootVars>>
    /\ UNCHANGED <<flagVars, gen, ops, itemVars>>
    /\ UNCHANGED <<partVars, diskVars, fetchVars>>

\* download_worker_added_item: sync.queued_newly_included_downloads.get()
AddedGet(t) ==
    /\ pc[t] = "a_get"
    /\ \E i \in queued_newly_included_downloads :
         /\ queued_newly_included_downloads' = queued_newly_included_downloads \ {i}
         /\ dbx_path' = [dbx_path EXCEPT ![t[1]] = i]
    /\ Goto(t, "a_chk_running")
    /\ UNCHANGED <<flagVars, gen, lock, envVars, ops, pending_downloads, last_cursor>>
    /\ UNCHANGED otherVars

\* download_worker_added_item: the two reads of
\* `if not (running.is_set() and syncing.is_set())`
AddedCheckRunning(t) ==
    /\ pc[t] = "a_chk_running"
    /\ Goto(t, IF running[t[1]] THEN "a_chk_syncing" ELSE "a_pending")
    /\ UNCHANGED <<flagVars, gen, lock, envVars, ops, itemVars, last_cursor>>
    /\ UNCHANGED otherVars

AddedCheckSyncing(t) ==
    /\ pc[t] = "a_chk_syncing"
    /\ Goto(t, IF syncing THEN "a_lock" ELSE "a_pending")
    /\ UNCHANGED <<flagVars, gen, lock, envVars, ops, itemVars, last_cursor>>
    /\ UNCHANGED otherVars

\* download_worker_added_item: sync.pending_downloads.add(dbx_path); continue
AddedPending(t) ==
    /\ pc[t] = "a_pending"
    /\ pending_downloads' = pending_downloads \cup {dbx_path[t[1]]}
    /\ dbx_path' = [dbx_path EXCEPT ![t[1]] = 0]
    /\ Goto(t, "loop")
    /\ UNCHANGED <<flagVars, gen, lock, envVars, ops, queued_newly_included_downloads,
                   last_cursor>>
    /\ UNCHANGED otherVars

\* download_worker_added_item: `with sync.lock:`
AddedLock(t) ==
    /\ pc[t] = "a_lock"
    /\ Acquire(t)
    /\ Goto(t, "a_batch")
    /\ UNCHANGED <<flagVars, gen, envVars, ops, itemVars, last_cursor>>
    /\ UNCHANGED otherVars

\* download_worker_added_item: sync.get_remote_item(dbx_path), which adds the path
\* to pending_downloads and discards it when it returns
AddedBatch(t) ==
    /\ pc[t] = "a_batch"
    /\ Release(t)
    /\ dbx_path' = [dbx_path EXCEPT ![t[1]] = 0]
    /\ \/ /\ NoFault
          /\ pending_downloads' = pending_downloads \ {dbx_path[t[1]]}
          /\ Goto(t, "loop")
       \/ /\ Fails
          /\ pending_downloads' = pending_downloads \cup {dbx_path[t[1]]}
          /\ Goto(t, "e_conn1")
       \/ /\ Fails
          /\ pending_downloads' = pending_downloads \cup {dbx_path[t[1]]}
          /\ Goto(t, "e_fatal1")
    /\ UNCHANGED <<flagVars, gen, ops, queued_newly_included_downloads, last_cursor>>
    /\ UNCHANGED otherVars

\* upload_worker: sync.wait_for_local_changes(timeout=5); its first statement,
\* ensure_dropbox_folder_present, raises DropboxDeletedError when the local
\* folder is missing
UploadCollect(t) ==
    /\ pc[t] = "u_collect"
    /\ IF ~dropbox_path_isdir
         THEN NoFault /\ Goto(t, "e_fatal1")
         ELSE \/ NoFault /\ Goto(t, "u_chk_running")     \* len(events) > 0
              \/ NoFault /\ Goto(t, "loop")              \* no events
              \/ Fails /\ Goto(t, "e_fatal1")
    /\ UNCHANGED <<flagVars, gen, lock, ops, itemVars, last_cursor>>
    /\ UNCHANGED otherVars

\* upload_worker entering its batch without waiting for sync.lock
UploadLockNotHeld(t) ==
    /\ pc[t] = "u_lock"
    /\ lock' = t
    /\ Goto(t, "u_batch")
    /\ UNCHANGED <<flagVars, gen, envVars, ops, itemVars, last_cursor>>
    /\ UNCHANGED otherVars

\* upload_worker: `with sync.lock:`
UploadLock(t) ==
    /\ pc[t] = "u_lock"
    /\ Acquire(t)
    /\ Goto(t, "u_batch")
    /\ UNCHANGED <<flagVars, gen, envVars, ops, itemVars, last_cursor>>
    /\ UNCHANGED otherVars

\* upload_worker: sync.apply_local_changes(events, local_cursor)
UploadBatch(t) ==
    /\ pc[t] = "u_batch"
    /\ Release(t)
    /\ \/ NoFault /\ Goto(t, "loop")
       \/ Fails /\ Goto(t, "e_conn1")
       \/ Fails /\ Goto(t, "e_fatal1")
    /\ UNCHANGED <<flagVars, gen, ops, itemVars, last_cursor>>
    /\ UNCHANGED otherVars

\* ------------------------------------------------ monitor: the user's calls

Worker(role) == <<gen, role>>

\* start() with self.running.set() executed before the observer is started
StartRunningBeforeObserver ==
    /\ pc[User] = "idle" /\ Events < MaxEvents
    /\ ops' = ops + 1
    /\ IF running[gen]
         THEN UNCHANGED <<gen, pc, running>>
         ELSE /\ gen < MaxStarts
              /\ gen' = gen + 1
              /\ running' = [running EXCEPT ![gen + 1] = TRUE]
              /\ \/ Goto(User, "st_syncing")
                 \/ UNCHANGED pc                  \* InotifyError: return
    /\ UNCHANGED <<syncing, startup, connected, paused_by_user, lock, envVars, itemVars,
                   last_cursor>>
    /\ UNCHANGED otherVars

\* MaestralMonitor.start(): returns at once when running; otherwise binds a new
\* Event to self.running and starts the observer, which fails when the inotify
\* limit is reached
Start ==
    /\ pc[User] = "idle" /\ Events < MaxEvents
    /\ ops' = ops + 1
    /\ IF running[gen]
         THEN UNCHANGED <<gen, pc>>
         ELSE /\ gen < MaxStarts
              /\ gen' = gen + 1
              /\ \/ Goto(User, "st_running")
                 \/ UNCHANGED pc                  \* InotifyError: return
    /\ UNCHANGED <<flagVars, lock, envVars, itemVars, last_cursor>>
    /\ UNCHANGED otherVars

\* start(): self.running.set()
StartSetRunning ==
    /\ pc[User] = "st_running"
    /\ running' = [running EXCEPT ![gen] = TRUE]
    /\ Goto(User, "st_syncing")
    /\ UNCHANGED <<syncing, startup, connected, paused_by_user, gen, lock, envVars, ops,
                   itemVars, last_cursor>>
    /\ UNCHANGED otherVars

\* start(): self.syncing.clear()
StartClearSyncing ==
    /\ pc[User] = "st_syncing"
    /\ syncing' = FALSE
    /\ Goto(User, "st_connected")
    /\ UNCHANGED <<startup, connected, paused_by_user, running, gen, lock, envVars, ops,
                   itemVars, last_cursor>>
    /\ UNCHANGED otherVars

\* start(): self.connected.set()
StartSetConnected ==
    /\ pc[User] = "st_connected"
    /\ connected' = TRUE
    /\ Goto(User, "st_startup")
    /\ UNCHANGED <<syncing, startup, paused_by_user, running, gen, lock, envVars, ops,
                   itemVars, last_cursor>>
    /\ UNCHANGED otherVars

\* start(): self.startup.set()
StartSetStartup ==
    /\ pc[User] = "st_startup"
    /\ startup' = TRUE
    /\ Goto(User, "st_thread_conn")
    /\ UNCHANGED <<syncing, connected, paused_by_user, running, gen, lock, envVars, ops,
                   itemVars, last_cursor>>
    /\ UNCHANGED otherVars

ThreadStartOrder == <<"conn", "startup", "up", "down", "added">>

\* start(): the five Thread.start() calls, in the order of the code
StartThread ==
    \E k \in 1..5 :
      /\ pc[User] = "st_thread_" \o ThreadStartOrder[k]
      /\ pc' = [pc EXCEPT ![Worker(ThreadStartOrder[k])] = "loop",
                          ![User] = IF k < 5 THEN "st_thread_" \o ThreadStartOrder[k + 1]
                                    ELSE "st_unpause"]
      /\ UNCHANGED <<flagVars, gen, lock, envVars, ops, itemVars, last_cursor>>
      /\ UNCHANGED otherVars

\* start(): self.paused_by_user.clear()
StartClearPaused ==
    /\ pc[User] = "st_unpause"
    /\ paused_by_user' = FALSE
    /\ Goto(User, "idle")
    /\ UNCHANGED <<syncing, startup, connected, running, gen, lock, envVars, ops,
                   itemVars, last_cursor>>
    /\ UNCHANGED otherVars

\* MaestralMonitor.pause(): self.paused_by_user.set()
Pause ==
    /\ pc[User] = "idle" /\ Events < MaxEvents
    /\ ops' = ops + 1
    /\ paused_by_user' = TRUE
    /\ Goto(User, "p_syncing")
    /\ UNCHANGED <<syncing, startup, connected, running, gen, lock, envVars,
                   itemVars, last_cursor>>
    /\ UNCHANGED otherVars

\* pause(): self.syncing.clear()
PauseClearSyncing ==
    /\ pc[User] = "p_syncing"
    /\ syncing' = FALSE
    /\ Goto(User, "p_idle1")
    /\ UNCHANGED <<startup, connected, paused_by_user, running, gen, lock, envVars, ops,
                   itemVars, last_cursor>>
    /\ UNCHANGED otherVars

\* _wait_for_idle(): self.sync.lock.acquire()
WaitForIdleAcquire ==
    /\ pc[User] \in {"p_idle1", "x_idle1"}
    /\ Acquire(User)
    /\ Goto(User, IF pc[User] = "p_idle1" THEN "p_idle2" ELSE "x_idle2")
    /\ UNCHANGED <<flagVars, gen, envVars, ops, itemVars, last_cursor>>
    /\ UNCHANGED otherVars

\* _wait_for_idle(): self.sync.lock.release()
WaitForIdleRelease ==
    /\ pc[User] \in {"p_idle2", "x_idle2"}
    /\ Release(User)
    /\ Goto(User, IF pc[User] = "p_idle2" THEN "idle" ELSE "x_join_conn")
    /\ UNCHANGED <<flagVars, gen, envVars, ops, itemVars, last_cursor>>
    /\ UNCHANGED otherVars

\* MaestralMonitor.resume(): returns at once unless paused by the user; else
\* self.startup.set()
Resume ==
    /\ pc[User] = "idle" /\ Events < MaxEvents
    /\ ops' = ops + 1
    /\ IF paused_by_user
         THEN startup' = TRUE /\ Goto(User, "r_unpause")
         ELSE UNCHANGED <<startup, pc>>
    /\ UNCHANGED <<syncing, connected, paused_by_user, running, gen, lock, envVars,
                   itemVars, last_cursor>>
    /\ UNCHANGED otherVars

\* resume(): self.paused_by_user.clear()
ResumeClearPaused ==
    /\ pc[User] = "r_unpause"
    /\ paused_by_user' = FALSE
    /\ Goto(User, "idle")
    /\ UNCHANGED <<syncing, startup, connected, running, gen, lock, envVars, ops,
                   itemVars, last_cursor>>
    /\ UNCHANGED otherVars

\* MaestralMonitor.stop(): returns at once unless running; else self.running.clear()
Stop ==
    /\ pc[User] = "idle" /\ Events < MaxEvents
    /\ ops' = ops + 1
    /\ IF running[gen]
         THEN running' = [running EXCEPT ![gen] = FALSE] /\ Goto(User, "x_syncing")
         ELSE UNCHANGED <<running, pc>>
    /\ UNCHANGED <<syncing, startup, connected, paused_by_user, gen, lock, envVars,
                   itemVars, last_cursor>>
    /\ UNCHANGED otherVars

\* stop(): self.syncing.clear()
StopClearSyncing ==
    /\ pc[User] = "x_syncing"
    /\ syncing' = FALSE
    /\ Goto(User, "x_paused")
    /\ UNCHANGED <<startup, connected, paused_by_user, running, gen, lock, envVars, ops,
                   itemVars, last_cursor>>
    /\ UNCHANGED otherVars

\* stop(): self.paused_by_user.clear()
StopClearPaused ==
    /\ pc[User] = "x_paused"
    /\ paused_by_user' = FALSE
    /\ Goto(User, "x_startup")
    /\ UNCHANGED <<syncing, startup, connected, running, gen, lock, envVars, ops,
                   itemVars, last_cursor>>
    /\ UNCHANGED otherVars

\* stop(): self.startup.clear()
StopClearStartup ==
    /\ pc[User] = "x_startup"
    /\ startup' = FALSE
    /\ Goto(User, "x_idle1")
    /\ UNCHANGED <<syncing, connected, paused_by_user, running, gen, lock, envVars, ops,
                   itemVars, last_cursor>>
    /\ UNCHANGED otherVars

Terminated(t) == pc[t] \in {"done", "crashed"}

\* stop(): local_observer_thread.stop() and join(), then connection_thread.join()
StopJoinConnection ==
    /\ pc[User] = "x_join_conn"
    /\ Terminated(Worker("conn"))
    /\ Goto(User, "x_join_up")
    /\ UNCHANGED <<flagVars, gen, lock, envVars, ops, itemVars, last_cursor>>
    /\ UNCHANGED otherVars

\* stop(): upload_thread.join()
StopJoinUpload ==
    /\ pc[User] = "x_join_up"
    /\ Terminated(Worker("up"))
    /\ Goto(User, "idle")
    /\ UNCHANGED <<flagVars, gen, lock, envVars, ops, itemVars, last_cursor>>
    /\ UNCHANGED otherVars

\* ------------------------------------------------------------- paths
\* A path is the sequence of its characters, so that str.lower, str.startswith
\* and os.path.dirname act on it as they do in the code.

Slash == "/"

\* str.lower on one character
LowerChar(c) == IF c = "A" THEN "a" ELSE c

\* str.lower
Lower(s) == [i \in 1..Len(s) |-> LowerChar(s[i])]

\* str.startswith
StartsWith(s, prefix) ==
    Len(prefix) <= Len(s) /\ SubSeq(s, 1, Len(prefix)) = prefix

\* str.rstrip('/')
RECURSIVE RStripSlash(_)
RStripSlash(s) ==
    IF s # <<>> /\ s[Len(s)] = Slash THEN RStripSlash(SubSeq(s, 1, Len(s) - 1)) ELSE s

\* index of the last '/' of s, 0 when there is none (str.rfind + 1)
LastSlash(s) ==
    LET at == {i \in 1..Len(s) : s[i] = Slash}
    IN  IF at = {} THEN 0 ELSE CHOOSE i \in at : \A j \in at : j <= i

\* os.path.dirname (posixpath): the head up to the last '/', without its
\* trailing slashes unless it consists of slashes only
Dirname(s) ==
    LET head == SubSeq(s, 1, LastSlash(s))
    IN  IF head # <<>> /\ RStripSlash(head) # <<>> THEN RStripSlash(head) ELSE head

\* os.path.basename (posixpath)
Basename(s) == SubSeq(s, LastSlash(s) + 1, Len(s))

Root == <<Slash>>

\* the names of files and folders
Names == {<<"a">>, <<"a", "b">>, <<"A">>}

Join(parent, name) == IF parent = Root THEN Root \o name ELSE parent \o <<Slash>> \o name

\* the absolute paths of at most d segments, without the root
RECURSIVE PathsUpTo(_)
PathsUpTo(d) ==
    IF d = 0 THEN {}
    ELSE LET shorter == PathsUpTo(d - 1)
         IN  shorter \cup {Join(p, n) : p \in shorter \cup {Root}, n \in Names}

\* q is a strict ancestor of p in the folder hierarchy (the root is an ancestor of
\* every other path)
IsAncestor(q, p) ==
    /\ Len(q) < Len(p)
    /\ IF q = Root THEN TRUE
       ELSE SubSeq(p, 1, Len(q)) = q /\ p[Len(q) + 1] = Slash

\* ------------------------------------------------------ revision index

NoRev == "None"

Revs == {"folder", "rev1", "rev2"}

IndexPaths == PathsUpTo(MaxDepth) \cup {Root}

\* UpDownSync.get_local_rev / dict.get(path, None)
DictGet(d, path) == IF path \in DOMAIN d THEN d[path] ELSE NoRev

\* the chain of os.path.dirname results of set_local_rev's loop
\* `while dirname != '/'`
RECURSIVE ParentsFrom(_)
ParentsFrom(dirname) ==
    IF dirname = Root THEN {} ELSE {dirname} \cup ParentsFrom(Dirname(dirname))

\* UpDownSync.set_local_rev: the contents of _rev_dict_cache after the call
SetLocalRev(d, dbxp, rev) ==
    LET path == Lower(dbxp)
    IN  IF rev = DictGet(d, path) THEN d
        ELSE IF rev = NoRev
          THEN [k \in {k \in DOMAIN d : ~StartsWith(k, path)} |-> d[k]]
          ELSE LET parents == ParentsFrom(Dirname(path))
               IN  [k \in DOMAIN d \cup {path} \cup parents |->
                      IF k \in parents THEN "folder"
                      ELSE IF k = path THEN rev ELSE d[k]]

\* a call of set_local_rev(dbx_path, rev)
CallSetLocalRev(dbxp, rev) ==
    /\ index_ops < MaxIndexOps
    /\ index_ops' = index_ops + 1
    /\ rev_dict_cache' = SetLocalRev(rev_dict_cache, dbxp, rev)
    /\ UNCHANGED <<monVars, last_cursor, downVars, normVars, handlerVars, upVars, conflictVars,
                   roundVars, daemonVars, rootVars, diskVars, fetchVars>>

\* a call of clear_rev_index()
CallClearRevIndex ==
    /\ index_ops < MaxIndexOps
    /\ index_ops' = index_ops + 1
    /\ rev_dict_cache' = <<>>
    /\ UNCHANGED <<monVars, last_cursor, downVars, normVars, handlerVars, upVars, conflictVars,
                   roundVars, daemonVars, rootVars, diskVars, fetchVars>>

\* no index file yet: _load_rev_dict_from_file returns an empty dict
InitIndex == rev_dict_cache = <<>> /\ index_ops = 0

NextIndex ==
    \/ \E p \in IndexPaths, r \in Revs \cup {NoRev} : CallSetLocalRev(p, r)
    \/ CallClearRevIndex

\* ------------------------------------------------------- download sync

\* self.dropbox_path
DropboxPath == <<Slash, "D">>

\* to_local_path, when no parent of the path exists on disk in another casing
ToLocalPath(dbxp) == DropboxPath \o dbxp

\* maestral.utils.path.is_child: sub lies strictly beneath parent
IsChild(sub, parent) ==
    LET dir == RStripSlash(parent) \o <<Slash>>
    IN  StartsWith(sub, dir) /\ sub # dir

\* str.endswith
EndsWith(s, suffix) ==
    Len(suffix) <= Len(s) /\ SubSeq(s, Len(s) - Len(suffix) + 1, Len(s)) = suffix

\* maestral.constants.EXCLUDED_FILE_NAMES: names of files of the operating system
EXCLUDED_FILE_NAMES ==
    {<<"d", "e", "s", "k", "t", "o", "p", ".", "i", "n", "i">>,
     <<"t", "h", "u", "m", "b", "s", ".", "d", "b">>,
     <<".", "d", "s", "_", "s", "t", "o", "r", "e">>}

\* UpDownSync.is_excluded
IsExcluded(dbxp) ==
    LET path == Lower(dbxp)
        basename == Basename(path)
    IN  \/ path \in {Root, <<>>}
        \/ basename \in EXCLUDED_FILE_NAMES
        \/ StartsWith(basename, <<"~", "$">>)
        \/ StartsWith(basename, <<".", "~">>)
        \/ StartsWith(basename, <<"~">>) /\ EndsWith(basename, <<".", "t", "m", "p">>)

\* UpDownSync.is_excluded_by_user
IsExcludedByUser(dbxp, excluded) ==
    LET path == Lower(dbxp)
    IN  \E f \in excluded : path = f \/ IsChild(path, f)

\* UpDownSync.clean_excluded_items_list
CleanExcludedItemsList(folder_list) ==
    LET folders == {RStripSlash(Lower(f)) : f \in folder_list}
    IN  {f \in folders : ~ \E folder \in folders : IsChild(f, folder)}

\* the values of the enumeration Conflict
RemoteNewer == 0
Conflict == 1
Identical == 2
LocalNewerOrIdentical == 2

\* the remote paths of the changes
DownPaths == {<<Slash, "A">>, <<Slash, "a", Slash, "a", "b">>}

\* FileMetadata, FolderMetadata and DeletedMetadata
Metadata(kind, path, rev) == [kind |-> kind, path_display |-> path, rev |-> rev]

PathLower(md) == Lower(md.path_display)

RemoteEntries ==
    {Metadata("file", p, r) : p \in DownPaths, r \in {"rev1", "rev2"}}
    \cup {Metadata("folder", p, "folder") : p \in DownPaths}
    \cup {Metadata("deleted", p, NoRev) : p \in DownPaths}

\* what the local item of an entry looks like to check_download_conflict:
\* unchanged since its last sync, changed with the hash of the remote item, or
\* changed with another hash
LocalStates == {"unchanged", "same_hash", "changed"}

\* how the calls of _create_local_entry end that reach the server or the disk:
\* normally, with a SyncError of the download, or with an OSError
Outcomes == {"ok", "sync_error", "os_error"}

\* UpDownSync._clean_remote_changes: the last entry of every path, in the order
\* in which the paths first appear
CleanRemoteChanges(entries) ==
    LET n == Len(entries)
        IsFirst(i) == \A j \in 1..(i - 1) : PathLower(entries[j]) # PathLower(entries[i])
        LastOf(i) ==
            CHOOSE j \in 1..n :
                /\ PathLower(entries[j]) = PathLower(entries[i])
                /\ \A k \in (j + 1)..n : PathLower(entries[k]) # PathLower(entries[i])
        unique == SelectSeq([i \in 1..n |-> i], IsFirst)
    IN  [u \in 1..Len(unique) |-> entries[LastOf(unique[u])]]

\* str.count('/')
SlashCount(s) == Cardinality({i \in 1..Len(s) : s[i] = Slash})

\* list.sort(key=lambda x: path(x).count('/'), reverse=...): a stable sort, from
\* level k on
RECURSIVE SortedFrom(_, _, _, _)
SortedFrom(seq, PathOf(_), k, reverse) ==
    LET AtLevel(x) == SlashCount(PathOf(x)) = k
        levels == {SlashCount(PathOf(seq[i])) : i \in 1..Len(seq)}
    IN  IF \A l \in levels : IF reverse THEN l > k ELSE l < k
          THEN <<>>
          ELSE SelectSeq(seq, AtLevel)
               \o SortedFrom(seq, PathOf, IF reverse THEN k - 1 ELSE k + 1, reverse)

SortBySlashCount(seq, PathOf(_), reverse) ==
    LET levels == {SlashCount(PathOf(seq[i])) : i \in 1..Len(seq)}
        top == IF levels = {} THEN 0 ELSE CHOOSE l \in levels : \A m \in levels : m <= l
    IN  SortedFrom(seq, PathOf, IF reverse THEN top ELSE 0, reverse)

PathDisplay(md) == md.path_display

\* UpDownSync.filter_excluded_changes_remote
EntriesFiltered(entries, excluded) ==
    LET Keep(e) == ~IsExcludedByUser(PathLower(e), excluded) \/ IsExcluded(PathLower(e))
    IN  SelectSeq(entries, Keep)

EntriesDiscarded(entries, excluded) ==
    LET filtered == EntriesFiltered(entries, excluded)
    IN  {entries[i] : i \in 1..Len(entries)} \ {filtered[i] : i \in 1..Len(filtered)}

\* check_download_conflict with the kind of the remote entry looked at before
\* the time stamps
CheckDownloadConflictDeletionFirst(idx, md, local) ==
    LET remote_rev == md.rev
        path == PathLower(md)
        local_rev == DictGet(idx, path)
    IN  IF remote_rev = local_rev
          THEN [conflict |-> LocalNewerOrIdentical, idx |-> idx]
        ELSE IF remote_rev = NoRev
          THEN [conflict |-> LocalNewerOrIdentical, idx |-> idx]
        ELSE IF local = "unchanged"
          THEN [conflict |-> RemoteNewer, idx |-> idx]
        ELSE IF local = "same_hash"
          THEN [conflict |-> Identical, idx |-> SetLocalRev(idx, path, remote_rev)]
        ELSE [conflict |-> Conflict, idx |-> idx]

\* UpDownSync.check_download_conflict: the conflict and the index after the call
CheckDownloadConflict(idx, md, local) ==
    LET remote_rev == md.rev
        path == PathLower(md)
        local_rev == DictGet(idx, path)
    IN  IF remote_rev = local_rev
          THEN [conflict |-> LocalNewerOrIdentical, idx |-> idx]
        ELSE IF local = "unchanged"
          THEN [conflict |-> RemoteNewer, idx |-> idx]
        ELSE IF remote_rev = NoRev
          THEN [conflict |-> LocalNewerOrIdentical, idx |-> idx]
        ELSE IF local = "same_hash"
          THEN [conflict |-> Identical, idx |-> SetLocalRev(idx, path, remote_rev)]
        ELSE [conflict |-> Conflict, idx |-> idx]

\* clear_sync_error leaving every error in place
ClearSyncErrorNothing(errors, dbxp) == errors

\* UpDownSync.clear_sync_error(dbx_path=...)
ClearSyncError(errors, dbxp) == {e \in errors : Lower(e) # Lower(dbxp)}

\* UpDownSync._create_local_entry under catch_sync_issues, after the book keeping
\* and the conflict check. st1 holds the index, the errors, the queue, the results
\* appended to `downloaded` and whether an exception other than a SyncError left
\* the call.
CreateLocalEntryAfter(st1, entry, conflict, outcome) ==
    LET path == PathLower(entry)
        Result(s, res) == [s EXCEPT !.downloaded = Append(@, res)]
    IN  IF conflict \in {Identical, LocalNewerOrIdentical}
          THEN Result(st1, "True")
        ELSE IF entry.kind = "file"
          THEN IF outcome = "ok"
                 THEN Result([st1 EXCEPT !.idx = SetLocalRev(@, path, entry.rev)], "entry")
               ELSE IF outcome = "sync_error"
                 THEN Result([st1 EXCEPT !.errs = @ \cup {entry.path_display},
                                         !.dlerrs = @ \cup {RStripSlash(path)}], "False")
               ELSE [st1 EXCEPT !.raised = TRUE]
        ELSE IF entry.kind = "folder"
          THEN IF outcome = "ok"
                 THEN Result([st1 EXCEPT !.idx = SetLocalRev(@, path, "folder")], "entry")
                 ELSE [st1 EXCEPT !.raised = TRUE]
        ELSE Result([st1 EXCEPT !.idx = SetLocalRev(@, path, NoRev)],
                    IF outcome = "ok" THEN "entry" ELSE "True")

CreateLocalEntry(st, entry, local, outcome) ==
    LET check == CheckDownloadConflict(st.idx, entry, local)
        st1 == [st EXCEPT !.errs = ClearSyncError(@, entry.path_display),
                          !.dlerrs = @ \ {RStripSlash(Lower(entry.path_display))},
                          !.queued = @ \ {ToLocalPath(entry.path_display)},
                          !.idx = check.idx]
    IN  CreateLocalEntryAfter(st1, entry, check.conflict, outcome)

\* the calls of _create_local_entry on the entries in turn; a loop stops at the
\* first exception, the thread pool runs every call it was given
RECURSIVE ApplyEntries(_, _, _, _, _)
ApplyEntries(st, entries, local, outcome, in_pool) ==
    IF entries = <<>> \/ (st.raised /\ ~in_pool) THEN st
    ELSE LET e == Head(entries)
             next == CreateLocalEntry(st, e, local[PathLower(e)], outcome[PathLower(e)])
         IN  ApplyEntries(next, Tail(entries), local, outcome, in_pool)

\* the orders in which n futures can complete
CompletionOrders(n) == {f \in [1..n -> 1..n] : \A i, j \in 1..n : f[i] = f[j] => i = j}

NoChanges == [state |-> "none", entries |-> <<>>, cursor |-> 0]

\* `applied` lists the entries given to _create_local_entry, in the order of the calls
NoResult == [state |-> "none", downloaded |-> <<>>, success |-> FALSE, applied |-> <<>>]

\* apply_remote_changes with the folders created before the deletions are applied
SequentialEntriesFoldersFirst(deleted, folders) == folders \o deleted

\* apply_remote_changes: `for item in deleted` and then `for folder in folders`,
\* the entries applied one after the other
SequentialEntries(deleted, folders) == deleted \o folders

\* list_remote_changes(last_cursor) under catch_sync_issues: the cleaned changes,
\* or False after a SyncError
ListRemoteChanges(entries) ==
    /\ changes.state = "none"
    /\ remote_cursor < MaxCursor
    /\ remote_cursor' = remote_cursor + 1
    /\ changes' = [state |-> "listed", entries |-> CleanRemoteChanges(entries),
                   cursor |-> remote_cursor + 1]
    /\ apply_result' = NoResult
    /\ UNCHANGED <<excluded_items, sync_errors, download_errors, queued_for_download>>
    /\ UNCHANGED <<monVars, last_cursor, indexVars, normVars, handlerVars, upVars, conflictVars,
                   roundVars, daemonVars, rootVars, diskVars, fetchVars>>

ListRemoteChangesFails(dbxp) ==
    /\ changes.state = "none"
    /\ remote_cursor < MaxCursor
    /\ remote_cursor' = remote_cursor + 1
    /\ changes' = [state |-> "failed", entries |-> <<>>, cursor |-> 0]
    /\ sync_errors' = sync_errors \cup {dbxp}
    /\ apply_result' = NoResult
    /\ UNCHANGED <<excluded_items, download_errors, queued_for_download>>
    /\ UNCHANGED <<monVars, last_cursor, indexVars, normVars, handlerVars, upVars, conflictVars,
                   roundVars, daemonVars, rootVars, diskVars, fetchVars>>

\* apply_remote_changes(changes, save_cursor)
ApplyRemoteChanges(save_cursor, local, outcome) ==
    /\ changes.state # "none"
    /\ changes' = NoChanges
    /\ IF changes.state = "failed"
         THEN /\ apply_result' = [NoResult EXCEPT !.state = "False"]
              /\ UNCHANGED <<excluded_items, sync_errors, download_errors,
                             queued_for_download, last_cursor, rev_dict_cache>>
         ELSE \E included \in {EntriesFiltered(changes.entries, excluded_items)} :
              \E files \in {SelectSeq(included, LAMBDA x : x.kind = "file")} :
              LET discarded == EntriesDiscarded(changes.entries, excluded_items)
                  deleted_excluded == {d \in discarded : d.kind = "deleted"}
                  IsFolder(x) == x.kind = "folder"
                  IsDeleted(x) == x.kind = "deleted"
                  folders == SortBySlashCount(SelectSeq(included, IsFolder), PathDisplay, FALSE)
                  deleted == SortBySlashCount(SelectSeq(included, IsDeleted), PathDisplay, TRUE)
                  st0 == [idx |-> rev_dict_cache, errs |-> sync_errors,
                          dlerrs |-> download_errors,
                          queued |-> queued_for_download
                              \cup {ToLocalPath(included[i].path_display) : i \in 1..Len(included)},
                          downloaded |-> <<>>, raised |-> FALSE]
                  AfterFiles(st, order) ==
                      IF st.raised THEN st
                      ELSE ApplyEntries(st, [i \in 1..Len(files) |-> files[order[i]]],
                                        local, outcome, TRUE)
              IN  \E sequential \in {SequentialEntries(deleted, folders)} :
                  \E st1 \in {ApplyEntries(st0, sequential, local, outcome, FALSE)} :
                  \E order \in CompletionOrders(Len(files)) :
                  \E st2 \in {AfterFiles(st1, order)} :
                  LET success ==
                          \A i \in 1..Len(st2.downloaded) : st2.downloaded[i] # "False"
                      applied ==
                          IF st1.raised
                            THEN SubSeq(sequential, 1, Len(st1.downloaded) + 1)
                            ELSE sequential \o [i \in 1..Len(files) |-> files[order[i]]]
                  IN
                  /\ excluded_items' = CleanExcludedItemsList(
                         {f \in excluded_items :
                             \A d \in deleted_excluded : ~StartsWith(f, PathLower(d))})
                  /\ rev_dict_cache' = st2.idx
                  /\ sync_errors' = st2.errs
                  /\ download_errors' = st2.dlerrs
                  /\ queued_for_download' = st2.queued
                  /\ IF st2.raised
                       THEN /\ apply_result' = [NoResult EXCEPT !.state = "raised",
                                                                !.applied = applied]
                            /\ UNCHANGED last_cursor
                       ELSE /\ apply_result' = [state |-> "returned",
                                                 downloaded |-> st2.downloaded,
                                                 success |-> success,
                                                 applied |-> applied]
                            /\ last_cursor' = IF save_cursor THEN changes.cursor
                                              ELSE last_cursor
    /\ UNCHANGED <<monVars, index_ops, remote_cursor, normVars, handlerVars, upVars, conflictVars,
                   roundVars, daemonVars, rootVars, diskVars, fetchVars>>

\* the paths the user can exclude
ExcludablePaths == {<<Slash, "a">>, <<Slash, "a", Slash, "a", "b">>}

\* the setter of UpDownSync.excluded_items
SetExcludedItems(folder_list) ==
    /\ changes.state = "none"
    /\ excluded_items' = CleanExcludedItemsList(folder_list)
    /\ UNCHANGED <<remote_cursor, changes, sync_errors, download_errors,
                   queued_for_download, apply_result>>
    /\ UNCHANGED <<monVars, last_cursor, indexVars, normVars, handlerVars, upVars, conflictVars,
                   roundVars, daemonVars, rootVars, diskVars, fetchVars>>

InitDown ==
    /\ remote_cursor = 0
    /\ changes = NoChanges
    /\ excluded_items = {}
    /\ sync_errors = {}
    /\ download_errors = {}
    /\ queued_for_download = {}
    /\ apply_result = NoResult

\* the entries of a list of remote changes
EntryLists == UNION {[1..n -> RemoteEntries] : n \in 0..MaxEntries}

EntryPaths(entries) == {PathLower(entries[i]) : i \in 1..Len(entries)}

NextDown ==
    \/ \E entries \in EntryLists : ListRemoteChanges(entries)
    \/ \E p \in DownPaths : ListRemoteChangesFails(p)
    \/ \E save_cursor \in BOOLEAN,
          local \in [EntryPaths(changes.entries) -> LocalStates],
          outcome \in [EntryPaths(changes.entries) -> Outcomes] :
            ApplyRemoteChanges(save_cursor, local, outcome)
    \/ \E folder_list \in SUBSET ExcludablePaths : SetExcludedItems(folder_list)

\* ------------------------------------------------------ conflict check

\* md.content_hash of a file entry, 'folder' for a folder, None for a deletion
NoHash == "None"

RemoteHash(md) ==
    IF md.kind = "file" THEN IF md.rev = "rev1" THEN "hash1" ELSE "hash2"
    ELSE IF md.kind = "folder" THEN "folder"
    ELSE NoHash

\* get_local_hash: the hash of a file, 'folder' for a directory, None for nothing
LocalHashes == {NoHash, "folder", "hash1", "hash2"}

\* get_ctime: -1.0 when there is nothing at the path
NoCtime == 0 - 1

Ctimes == {NoCtime} \cup 1..MaxTime

\* UpDownSync.get_last_sync_for_path
GetLastSyncForPath(dbxp) ==
    LET key == Lower(dbxp)
        saved == IF key \in DOMAIN last_sync_for_path THEN last_sync_for_path[key] ELSE 0
    IN  IF saved >= last_sync THEN saved ELSE last_sync

\* what check_download_conflict finds on the disk: the item has not changed since
\* the last sync of its path, or it has and its hash is the remote hash or not
LocalState(ctime, last_sync_path, local_hash, remote_hash) ==
    IF ctime <= last_sync_path THEN "unchanged"
    ELSE IF remote_hash = local_hash THEN "same_hash"
    ELSE "changed"

NoCheck ==
    [state |-> "none", md |-> Metadata("deleted", <<>>, NoRev), local_rev |-> NoRev,
     ctime |-> NoCtime, last_sync |-> 0, local_hash |-> NoHash, conflict |-> RemoteNewer,
     rev_after |-> NoRev]

\* UpDownSync.set_last_sync_for_path; 0.0 removes the entry
SetLastSyncForPath(dbxp, t) ==
    /\ last_sync_for_path' =
         IF t = 0
           THEN [k \in DOMAIN last_sync_for_path \ {Lower(dbxp)} |-> last_sync_for_path[k]]
           ELSE [k \in DOMAIN last_sync_for_path \cup {Lower(dbxp)} |->
                   IF k = Lower(dbxp) THEN t ELSE last_sync_for_path[k]]
    /\ last_sync_for_path' # last_sync_for_path
    /\ UNCHANGED <<monVars, last_cursor, indexVars, downVars, normVars, handlerVars, upVars,
                   conflict_check, roundVars, daemonVars, rootVars, diskVars, fetchVars>>

\* a call of check_download_conflict(md) with the given item on the disk
CallCheckDownloadConflict(md, ctime, local_hash) ==
    LET last_sync_path == GetLastSyncForPath(PathLower(md))
        local == LocalState(ctime, last_sync_path, local_hash, RemoteHash(md))
    IN  \E check \in {CheckDownloadConflict(rev_dict_cache, md, local)} :
          /\ rev_dict_cache' = check.idx
          /\ conflict_check' =
               [state |-> "returned", md |-> md,
                local_rev |-> DictGet(rev_dict_cache, PathLower(md)),
                ctime |-> ctime, last_sync |-> last_sync_path, local_hash |-> local_hash,
                conflict |-> check.conflict,
                rev_after |-> DictGet(check.idx, PathLower(md))]
          /\ UNCHANGED <<monVars, last_cursor, index_ops, downVars, normVars, handlerVars,
                         upVars, last_sync_for_path, roundVars, daemonVars, rootVars,
                         diskVars, fetchVars>>

InitConflict ==
    /\ last_sync_for_path = <<>>
    /\ conflict_check = NoCheck

\* the index and the sync times are set up, then one conflict check is made
NextConflict ==
    \/ /\ conflict_check.state = "none"
       /\ \E p \in DownPaths, r \in Revs \cup {NoRev} : CallSetLocalRev(Lower(p), r)
    \/ /\ conflict_check.state = "none"
       /\ \E p \in DownPaths, t \in 0..MaxTime : SetLastSyncForPath(p, t)
    \/ /\ conflict_check.state = "none"
       /\ \E md \in RemoteEntries, ctime \in Ctimes, local_hash \in LocalHashes :
             CallCheckDownloadConflict(md, ctime, local_hash)

\* ---------------------------------------------------- local events

NoPath == <<>>

\* a watchdog event; dest_path is NoPath unless the event is a move
FileSystemEvent(type, is_dir, src, dest) ==
    [event_type |-> type, is_directory |-> is_dir, src_path |-> src, dest_path |-> dest]

CreatedEvent(is_dir, path) == FileSystemEvent("created", is_dir, path, NoPath)
DeletedEvent(is_dir, path) == FileSystemEvent("deleted", is_dir, path, NoPath)
ModifiedEvent(is_dir, path) == FileSystemEvent("modified", is_dir, path, NoPath)
MovedEvent(is_dir, src, dest) == FileSystemEvent("moved", is_dir, src, dest)

\* get_dest_path
GetDestPath(event) ==
    IF event.event_type = "moved" THEN event.dest_path ELSE event.src_path

\* to_dbx_path for a path inside the Dropbox folder
ToDbxPath(local_path) ==
    IF local_path = DropboxPath THEN Root
    ELSE SubSeq(local_path, Len(DropboxPath) + 1, Len(local_path))

\* str.lstrip('/')
RECURSIVE LStripSlash(_)
LStripSlash(s) == IF s # <<>> /\ s[1] = Slash THEN LStripSlash(Tail(s)) ELSE s

\* the names between the slashes of a relative path
RECURSIVE Segments(_)
Segments(s) ==
    LET rest == LStripSlash(s)
        at == {i \in 1..Len(rest) : rest[i] = Slash}
        stop == IF at = {} THEN Len(rest) + 1 ELSE CHOOSE i \in at : \A j \in at : i <= j
    IN  IF rest = <<>> THEN {}
        ELSE {SubSeq(rest, 1, stop - 1)} \cup Segments(SubSeq(rest, stop, Len(rest)))

\* UpDownSync._is_mignore_path: pathspec's match_file for patterns that are plain
\* names, which match an item of that name at any depth and everything in it
IsMignorePath(dbxp, is_dir, rules) ==
    LET relative_path == LStripSlash(dbxp) \o (IF is_dir THEN <<Slash>> ELSE <<>>)
    IN  Segments(relative_path) \cap rules # {}

\* UpDownSync._should_split_mignore
ShouldSplitMignore(event, rules) ==
    IF rules = {} THEN FALSE
    ELSE \/ IsMignorePath(ToDbxPath(event.src_path), event.is_directory, rules)
         \/ IsMignorePath(ToDbxPath(event.dest_path), event.is_directory, rules)

\* UpDownSync._should_split_excluded
ShouldSplitExcluded(event, excluded, rules) ==
    IF \/ IsExcluded(event.src_path)
       \/ IsExcluded(event.dest_path)
       \/ IsExcludedByUser(event.src_path, excluded)
       \/ IsExcludedByUser(event.dest_path, excluded)
      THEN TRUE
      ELSE ShouldSplitMignore(event, rules)

\* the number of elements of seq that satisfy Test
Count(seq, Test(_)) == Len(SelectSeq(seq, Test))

\* _clean_local_events, first half: a move is split into a Deleted and a Created
\* event when one of its paths occurs in another event or is excluded
RECURSIVE SplitMovesFrom(_, _, _, _)
SplitMovesFrom(events, i, excluded, rules) ==
    IF i > Len(events) THEN <<>>
    ELSE LET e == events[i]
             IsMoved(x) == x.event_type = "moved"
             all_src_paths == [j \in 1..Len(events) |-> events[j].src_path]
             moved == SelectSeq(events, IsMoved)
             all_dest_paths == [j \in 1..Len(moved) |-> moved[j].dest_path]
             all_paths == all_src_paths \o all_dest_paths
             InMove(p) == p \in {e.src_path, e.dest_path}
             related == SelectSeq(all_paths, InMove)
             new == IF e.event_type = "moved"
                       /\ (Len(related) > 2 \/ ShouldSplitExcluded(e, excluded, rules))
                      THEN <<DeletedEvent(e.is_directory, e.src_path),
                             CreatedEvent(e.is_directory, e.dest_path)>>
                      ELSE <<e>>
         IN  new \o SplitMovesFrom(events, i + 1, excluded, rules)

SplitMoves(events, excluded, rules) == SplitMovesFrom(events, 1, excluded, rules)

\* the events of one src_path, in their order
History(events, path) ==
    LET OnPath(e) == e.src_path = path
    IN  SelectSeq(events, OnPath)

UniquePaths(events) == {events[i].src_path : i \in 1..Len(events)}

\* Python's next(iter(i for i, e in enumerate(h) if ...), -1): the index, counted
\* from 0, of the first event of the type, or -1
FirstIdx(h, type) ==
    LET at == {i \in 1..Len(h) : h[i].event_type = type}
    IN  IF at = {} THEN -1 ELSE (CHOOSE i \in at : \A j \in at : i <= j) - 1

\* that branch without the comparison of the first Created with the first Deleted
CleanHistoryElseUnordered(h) ==
    IF h[1].is_directory /\ h[Len(h)].is_directory
      THEN <<ModifiedEvent(TRUE, h[1].src_path)>>
    ELSE IF ~h[1].is_directory /\ ~h[Len(h)].is_directory
      THEN <<ModifiedEvent(FALSE, h[1].src_path)>>
    ELSE <<DeletedEvent(h[1].is_directory, h[1].src_path),
           CreatedEvent(h[Len(h)].is_directory, h[1].src_path)>>

\* _clean_local_events, the branch `else` of the second `if` for a history of
\* several events; h[1] and h[Len(h)] are Python's h[0] and h[-1], h[2] is h[1]
CleanHistoryElse(h) ==
    LET path == h[1].src_path
        n_created == Count(h, LAMBDA e : e.event_type = "created")
        first_created_idx == FirstIdx(h, "created")
        first_deleted_idx == FirstIdx(h, "deleted")
    IN  IF n_created = 0 \/ first_deleted_idx < first_created_idx
          THEN IF h[1].is_directory /\ h[Len(h)].is_directory
                 THEN <<ModifiedEvent(TRUE, path)>>
               ELSE IF ~h[1].is_directory /\ ~h[Len(h)].is_directory
                 THEN <<ModifiedEvent(FALSE, path)>>
               ELSE IF h[1].is_directory
                 THEN <<DeletedEvent(TRUE, path), CreatedEvent(FALSE, path)>>
               ELSE IF h[2].is_directory
                 THEN <<DeletedEvent(FALSE, path), CreatedEvent(TRUE, path)>>
               ELSE <<>>
          ELSE <<>>

\* the first `if`: more Created than Deleted events
CleanHistoryCreated(h) ==
    LET n_created == Count(h, LAMBDA e : e.event_type = "created")
        n_deleted == Count(h, LAMBDA e : e.event_type = "deleted")
    IN  IF n_created > n_deleted
          THEN <<CreatedEvent(h[Len(h)].is_directory, h[1].src_path)>>
          ELSE <<>>

\* _clean_local_events: the events emitted for a history of several events
CleanHistory(h) ==
    LET n_created == Count(h, LAMBDA e : e.event_type = "created")
        n_deleted == Count(h, LAMBDA e : e.event_type = "deleted")
    IN  CleanHistoryCreated(h)
        \o (IF n_created < n_deleted
              THEN <<DeletedEvent(h[1].is_directory, h[1].src_path)>>
              ELSE CleanHistoryElse(h))

\* _clean_local_events, second half: the histories in the iteration order of the
\* set unique_paths
RECURSIVE CleanHistories(_, _)
CleanHistories(events, order) ==
    IF order = <<>> THEN <<>>
    ELSE LET h == History(events, Head(order))
         IN  (IF Len(h) = 1 THEN h ELSE CleanHistory(h))
             \o CleanHistories(events, Tail(order))

\* the orders in which a set can be iterated
Orderings(S) ==
    {f \in [1..Cardinality(S) -> S] : \A i, j \in 1..Cardinality(S) : f[i] = f[j] => i = j}

\* UpDownSync._clean_local_events
CleanLocalEvents(events, order, excluded, rules) ==
    CleanHistories(SplitMoves(events, excluded, rules), order)

\* UpDownSync._list_diff
ListDiff(list1, list2) ==
    LET Kept(item) == item \notin {list2[i] : i \in 1..Len(list2)}
    IN  SelectSeq(list1, Kept)

IsDirMoved(x) == x.event_type = "moved" /\ x.is_directory

\* _is_moved_child with the arguments of is_child exchanged
IsMovedParent(x, parent) ==
    /\ x.event_type = "moved"
    /\ IsChild(parent.src_path, x.src_path)
    /\ IsChild(parent.dest_path, x.dest_path)

\* UpDownSync._is_moved_child
IsMovedChild(x, parent) ==
    /\ x.event_type = "moved"
    /\ IsChild(x.src_path, parent.src_path)
    /\ IsChild(x.dest_path, parent.dest_path)

IsDirDeleted(x) == x.event_type = "deleted" /\ x.is_directory

IsDeletedChild(x, parent) ==
    x.event_type = "deleted" /\ IsChild(x.src_path, parent.src_path)

\* wait_for_local_changes after _clean_local_events: DirModified events are
\* removed, then the moves inside moved folders, then the deletions inside
\* deleted folders
CombineEvents(clean) ==
    LET NotDirModified(e) == ~(e.event_type = "modified" /\ e.is_directory)
        events1 == SelectSeq(clean, NotDirModified)
        dir_moved_events == SelectSeq(events1, IsDirMoved)
        ChildOfMoved(x) ==
            \E i \in 1..Len(dir_moved_events) : IsMovedChild(x, dir_moved_events[i])
        events2 == ListDiff(events1, SelectSeq(events1, ChildOfMoved))
        dir_deleted_events == SelectSeq(events2, IsDirDeleted)
        ChildOfDeleted(x) ==
            \E i \in 1..Len(dir_deleted_events) : IsDeletedChild(x, dir_deleted_events[i])
    IN  ListDiff(events2, SelectSeq(events2, ChildOfDeleted))

\* the local paths of the events of a burst
NormPaths ==
    {DropboxPath \o p : p \in {<<Slash, "a">>, <<Slash, "a", Slash, "a">>,
                               <<Slash, "a", "b">>, <<Slash, "a", "b", Slash, "a">>}}

BurstEvents ==
    {FileSystemEvent(t, d, p, NoPath) :
        t \in {"created", "deleted", "modified"}, d \in BOOLEAN, p \in NormPaths}
    \cup {MovedEvent(d, pq[1], pq[2]) :
            d \in BOOLEAN, pq \in {pq \in NormPaths \X NormPaths : pq[1] # pq[2]}}

\* the path whose history the long bursts make up, and the path it is moved
\* to and from
HistoryPath == DropboxPath \o <<Slash, "a">>

OtherPath == DropboxPath \o <<Slash, "a", "b">>

HistoryEvents ==
    {FileSystemEvent(t, d, HistoryPath, NoPath) :
        t \in {"created", "deleted", "modified"}, d \in BOOLEAN}
    \cup {MovedEvent(d, HistoryPath, OtherPath) : d \in BOOLEAN}
    \cup {MovedEvent(d, OtherPath, HistoryPath) : d \in BOOLEAN}

\* the event handler puts an event on the queue
PutEvent(event) ==
    /\ Len(burst) + Len(local_file_event_queue) < MaxBurst
    /\ local_file_event_queue' = Append(local_file_event_queue, event)
    /\ UNCHANGED <<mignore_rules, burst, cleaned, local_changes>>
    /\ UNCHANGED <<monVars, last_cursor, indexVars, downVars, handlerVars, upVars, conflictVars,
                   roundVars, daemonVars, rootVars, diskVars, fetchVars>>

\* the event handler puts an event of the history of one path on the queue
PutHistoryEvent(event) ==
    /\ Len(burst) + Len(local_file_event_queue) < MaxHistory
    /\ local_file_event_queue' = Append(local_file_event_queue, event)
    /\ UNCHANGED <<mignore_rules, burst, cleaned, local_changes>>
    /\ UNCHANGED <<monVars, last_cursor, indexVars, downVars, handlerVars, upVars, conflictVars,
                   roundVars, daemonVars, rootVars, diskVars, fetchVars>>

\* wait_for_local_changes: every queued event is retrieved and cleaned up
WaitForLocalChanges ==
    /\ local_file_event_queue # <<>>
    /\ \E order \in Orderings(UniquePaths(SplitMoves(local_file_event_queue,
                                                      excluded_items, mignore_rules))) :
         \E clean \in {CleanLocalEvents(local_file_event_queue, order,
                                        excluded_items, mignore_rules)} :
            /\ cleaned' = clean
            /\ local_changes' = CombineEvents(clean)
    /\ burst' = local_file_event_queue
    /\ local_file_event_queue' = <<>>
    /\ UNCHANGED mignore_rules
    /\ UNCHANGED <<monVars, last_cursor, indexVars, downVars, handlerVars, upVars, conflictVars,
                   roundVars, daemonVars, rootVars, diskVars, fetchVars>>

InitNorm ==
    /\ mignore_rules = {}
    /\ local_file_event_queue = <<>>
    /\ burst = <<>>
    /\ cleaned = <<>>
    /\ local_changes = <<>>

NextNorm ==
    \/ \E event \in BurstEvents : PutEvent(event)
    \/ WaitForLocalChanges

NextHist ==
    \/ \E event \in HistoryEvents : PutHistoryEvent(event)
    \/ WaitForLocalChanges

\* ---------------------------------------------------- event handler

\* FileEventHandler.is_being_downloaded
IsBeingDownloaded(local_path, downloading) ==
    LET path == Lower(local_path)
    IN  \E p \in downloading : path = Lower(p) \/ IsChild(path, Lower(p))

\* maestral.constants.IS_FS_CASE_SENSITIVE: on a file system that ignores case
\* no directory holds two names that differ in case only
IS_FS_CASE_SENSITIVE == TRUE

\* str(i) for the numbers of the names of case conflicts
Digit(i) == <<"1", "2", "3", "4", "5", "6", "7", "8", "9">>[i]

\* rename_on_case_conflict: '{base} (case conflict){ext}' for i = 0 and
\* '{base} (case conflict {i}){ext}' otherwise; the names here have no extension
CaseConflictPath(created_path, i) ==
    created_path \o <<" ", "(", "c", "a", "s", "e", " ",
                      "c", "o", "n", "f", "l", "i", "c", "t">>
                 \o (IF i = 0 THEN <<>> ELSE <<" ", Digit(i)>>) \o <<")">>

\* the same path with the case of its last character changed
OtherCase(path) ==
    LET c == path[Len(path)]
        swapped == IF c = "a" THEN "A" ELSE IF c = "A" THEN "a"
                   ELSE IF c = "b" THEN "B" ELSE "b"
    IN  SubSeq(path, 1, Len(path) - 1) \o <<swapped>>

\* what os.listdir finds next to a created item: the item has gone, it is alone,
\* another item has its name in another case, or so does the first name for the
\* renamed item as well
ListingCases == {"gone", "alone", "conflict", "conflict_taken"}

OtherItems(created_path, listing) ==
    IF listing = "conflict" THEN {OtherCase(created_path)}
    ELSE IF listing = "conflict_taken"
      THEN {OtherCase(created_path), CaseConflictPath(created_path, 0)}
    ELSE {}

\* rename_on_case_conflict: the `while` loop that looks for a free name
RECURSIVE FreeCaseConflictPath(_, _, _)
FreeCaseConflictPath(created_path, other_items, i) ==
    IF \E p \in other_items : Lower(p) = Lower(CaseConflictPath(created_path, i))
      THEN FreeCaseConflictPath(created_path, other_items, i + 1)
      ELSE CaseConflictPath(created_path, i)

\* FileEventHandler.rename_on_case_conflict: the event it returns and the path of
\* the item it renamed, NoPath if it renamed nothing
RenameOnCaseConflict(event, listing) ==
    LET created_path == GetDestPath(event)
        other_items == OtherItems(created_path, listing)
        new_path == FreeCaseConflictPath(created_path, other_items, 0)
    IN  IF event.event_type \notin {"created", "moved"} \/ listing = "gone"
          THEN [event |-> event, renamed |-> NoPath]
        ELSE IF \E p \in other_items : Lower(p) = Lower(created_path)
          THEN [event |-> IF event.event_type = "created"
                            THEN CreatedEvent(event.is_directory, new_path)
                            ELSE MovedEvent(event.is_directory, event.src_path, new_path),
                renamed |-> created_path]
        ELSE [event |-> event, renamed |-> NoPath]

\* list.remove: without the first occurrence of x
RemoveFirst(seq, x) ==
    LET i == CHOOSE i \in 1..Len(seq) : seq[i] = x /\ \A j \in 1..(i - 1) : seq[j] # x
    IN  SubSeq(seq, 1, i - 1) \o SubSeq(seq, i + 1, Len(seq))

InSeq(seq, x) == \E i \in 1..Len(seq) : seq[i] = x

\* FileEventHandler.on_any_event
OnAnyEvent(event, listing) ==
    /\ Len(local_file_event_queue) < MaxQueued
    /\ IF ~(syncing \/ startup) \/ IsBeingDownloaded(event.src_path, queue_downloading)
         THEN UNCHANGED <<local_file_event_queue, renamed_items_cache, fs_events>>
         ELSE LET res == IF IS_FS_CASE_SENSITIVE
                           THEN RenameOnCaseConflict(event, listing)
                           ELSE [event |-> event, renamed |-> NoPath]
                  cache == IF res.renamed = NoPath THEN renamed_items_cache
                           ELSE Append(renamed_items_cache, res.renamed)
              IN  /\ res.renamed # NoPath => Len(renamed_items_cache) < MaxRenames
                  /\ fs_events' =
                        (fs_events \ {event})
                        \cup (IF res.renamed = NoPath THEN {}
                              ELSE {MovedEvent(event.is_directory, res.renamed,
                                               GetDestPath(res.event))})
                  /\ IF InSeq(cache, res.event.src_path)
                       THEN /\ renamed_items_cache' = RemoveFirst(cache, res.event.src_path)
                            /\ UNCHANGED local_file_event_queue
                       ELSE /\ renamed_items_cache' = cache
                            /\ local_file_event_queue' =
                                  Append(local_file_event_queue, res.event)
    /\ UNCHANGED <<queue_downloading, mignore_rules, burst, cleaned, local_changes>>
    /\ UNCHANGED <<monVars, last_cursor, indexVars, downVars, upVars, conflictVars, roundVars,
                   daemonVars, rootVars, diskVars, fetchVars>>

\* InQueue.__enter__ with queue_downloading
EnterInQueue(name) ==
    /\ queue_downloading' = queue_downloading \cup {name}
    /\ UNCHANGED <<renamed_items_cache, fs_events, normVars>>
    /\ UNCHANGED <<monVars, last_cursor, indexVars, downVars, upVars, conflictVars, roundVars,
                   daemonVars, rootVars, diskVars, fetchVars>>

\* InQueue.__exit__ with queue_downloading
ExitInQueue(name) ==
    /\ name \in queue_downloading
    /\ queue_downloading' = queue_downloading \ {name}
    /\ UNCHANGED <<renamed_items_cache, fs_events, normVars>>
    /\ UNCHANGED <<monVars, last_cursor, indexVars, downVars, upVars, conflictVars, roundVars,
                   daemonVars, rootVars, diskVars, fetchVars>>

\* the monitor sets and clears the events `syncing` and `startup`
SetSyncFlags(sync_flag, startup_flag) ==
    /\ syncing' = sync_flag
    /\ startup' = startup_flag
    /\ UNCHANGED <<connected, paused_by_user, running, gen, lock, pc, faults, ops,
                   queued_newly_included_downloads, pending_downloads, dbx_path>>
    /\ UNCHANGED <<last_cursor, otherVars>>

\* the local paths of the raw events and of the downloads
HandlerPaths ==
    {DropboxPath \o p : p \in {<<Slash, "a">>, <<Slash, "A", Slash, "b">>, <<Slash, "b">>}}

DownloadingPaths ==
    {DropboxPath \o p : p \in {<<Slash, "A">>, <<Slash, "b">>}}

RawEvents ==
    {FileSystemEvent(t, d, p, NoPath) :
        t \in {"created", "deleted", "modified"}, d \in BOOLEAN, p \in HandlerPaths}
    \cup {MovedEvent(d, pq[1], pq[2]) :
            d \in BOOLEAN, pq \in {pq \in HandlerPaths \X HandlerPaths : pq[1] # pq[2]}}

InitHandler ==
    /\ queue_downloading = {}
    /\ renamed_items_cache = <<>>
    /\ fs_events = {}

NextHandler ==
    \/ \E event \in RawEvents \cup fs_events, listing \in ListingCases :
          OnAnyEvent(event, listing)
    \/ \E name \in DownloadingPaths : EnterInQueue(name)
    \/ \E name \in DownloadingPaths : ExitInQueue(name)
    \/ \E sync_flag, startup_flag \in BOOLEAN : SetSyncFlags(sync_flag, startup_flag)

\* -------------------------------------------------------- upload sync

\* what client.get_metadata finds at the path of an event: nothing, a folder, or a
\* file that has the content of the local file (for a deletion: that has not been
\* modified since the last sync) or that has not
OldMetadata == {"none", "folder", "file_same", "file_other"}

\* how the call of the client that applies an event ends: at the requested path,
\* at a path renamed by the server, with a NotFoundError, with another SyncError,
\* or with an exception that is no SyncError
UploadResults == {"ok", "renamed", "not_found", "sync_error", "os_error"}

Replies == [md_old : OldMetadata, result : UploadResults]

\* the path the server picks with autorename=True
RenamedPath(dbxp) == dbxp \o <<" ", "(", "1", ")">>

\* the metadata of the item get_metadata found
MdOld(reply, dbxp) ==
    IF reply.md_old = "folder" THEN Metadata("folder", dbxp, "folder")
    ELSE Metadata("file", dbxp, "rev1")

\* F(v), with v computed once
Strict(v, F(_)) == CHOOSE w \in {F(x) : x \in {v}} : TRUE

Returned(st) == [st |-> st, exc |-> "none"]

Raised(st, exc) == [st |-> st, exc |-> exc]

SetRev(st, dbxp, rev) == [st EXCEPT !.idx = SetLocalRev(@, dbxp, rev)]

\* _on_created without the set_local_rev calls that follow the upload
OnCreatedRevNotSaved(st, event, reply) ==
    IF reply.result \in {"sync_error", "os_error"} THEN Raised(st, reply.result)
    ELSE Returned(st)

\* UpDownSync._on_created; the download of the original item after a conflict
\* finds nothing at the local path and succeeds
OnCreated(st, event, reply) ==
    LET dbxp == ToDbxPath(event.src_path)
        md_new_path == IF reply.result = "renamed" THEN RenamedPath(dbxp) ELSE dbxp
        md_new_rev == IF event.is_directory THEN "folder" ELSE "rev2"
    IN  IF event.is_directory /\ reply.md_old = "folder"
          THEN Returned(SetRev(st, dbxp, "folder"))
        ELSE IF ~event.is_directory /\ reply.md_old = "file_same"
          THEN Returned(SetRev(st, dbxp, "rev1"))
        ELSE IF reply.result \in {"sync_error", "os_error"}
          THEN Raised(st, reply.result)
        ELSE IF reply.result = "not_found"
          THEN IF event.is_directory THEN Raised(st, "sync_error") ELSE Returned(st)
        ELSE IF Lower(md_new_path) # Lower(dbxp) /\ reply.md_old # "none"
          THEN Returned(CreateLocalEntry(
                   SetRev(SetRev(st, dbxp, NoRev), md_new_path, md_new_rev),
                   MdOld(reply, dbxp), "unchanged", "ok"))
        ELSE Returned(SetRev(st, md_new_path, md_new_rev))

\* UpDownSync._on_modified
OnModified(st, event, reply) ==
    LET dbxp == ToDbxPath(event.src_path)
        md_new_path == IF reply.result = "renamed" THEN RenamedPath(dbxp) ELSE dbxp
    IN  IF event.is_directory THEN Returned(st)
        ELSE IF reply.md_old = "file_same"
          THEN Returned(SetRev(st, dbxp, "rev1"))
        ELSE IF reply.result \in {"sync_error", "os_error"}
          THEN Raised(st, reply.result)
        ELSE IF reply.result = "not_found"
          THEN Returned(st)
        ELSE IF Lower(md_new_path) # Lower(dbxp) /\ reply.md_old # "none"
          THEN Returned(CreateLocalEntry(
                   SetRev(SetRev(st, dbxp, NoRev), md_new_path, "rev2"),
                   MdOld(reply, dbxp), "unchanged", "ok"))
        ELSE Returned(SetRev(st, md_new_path, "rev2"))

\* _on_deleted that keeps the rev when the remote item has changed its kind
OnDeletedKeepsRev(st, event, reply) ==
    LET dbxp == ToDbxPath(event.src_path)
        local_rev == DictGet(st.idx, Lower(dbxp))
    IN  IF (local_rev = "folder") # (reply.md_old = "folder") /\ reply.md_old # "none"
          THEN Returned(st)
        ELSE IF reply.result \in {"sync_error", "os_error"}
          THEN Raised(st, reply.result)
        ELSE Returned(SetRev(st, dbxp, NoRev))

\* UpDownSync._on_deleted
OnDeleted(st, event, reply) ==
    LET dbxp == ToDbxPath(event.src_path)
        local_rev == DictGet(st.idx, Lower(dbxp))
        is_file == local_rev # "folder"
        is_folder == local_rev = "folder"
    IN  IF is_folder /\ reply.md_old = "file_other"
          THEN Returned(SetRev(st, dbxp, NoRev))
        ELSE IF is_file /\ reply.md_old = "folder"
          THEN Returned(SetRev(st, dbxp, NoRev))
        ELSE IF reply.result \in {"sync_error", "os_error"}
          THEN Raised(st, reply.result)
        ELSE Returned(SetRev(st, dbxp, NoRev))

\* UpDownSync._on_moved; a moved folder has no children on the server, and the
\* item that get_remote_item fetches after a conflict is a file
OnMoved(st, event, reply) ==
    LET dbx_path_from == ToDbxPath(event.src_path)
        dbx_path_to == ToDbxPath(event.dest_path)
        md_new_rev == IF event.is_directory THEN "folder" ELSE "rev2"
        st1 == SetRev(st, dbx_path_from, NoRev)
    IN  IF reply.md_old = "none"
          THEN OnCreated(st1, CreatedEvent(event.is_directory, event.dest_path), reply)
        ELSE IF reply.result \in {"sync_error", "os_error"}
          THEN Raised(st1, reply.result)
        ELSE IF reply.result = "not_found"
          THEN Raised(st1, "sync_error")
        ELSE IF reply.result = "renamed"
          THEN Returned(CreateLocalEntry(
                   SetRev(SetRev(st1, dbx_path_to, NoRev),
                          RenamedPath(dbx_path_to), md_new_rev),
                   Metadata("file", dbx_path_to, "rev1"), "unchanged", "ok"))
        ELSE Returned(SetRev(st1, dbx_path_to, md_new_rev))

\* UpDownSync._apply_event under catch_sync_issues
ApplyEvent(st, event, reply) ==
    LET local_path_from == event.src_path
        local_path_to == GetDestPath(event)
        st1 == [st EXCEPT
                  !.queued_up = @ \ {local_path_to, local_path_from},
                  !.errs = ClearSyncError(ClearSyncError(@, ToDbxPath(local_path_to)),
                                          ToDbxPath(local_path_from)),
                  !.dlerrs = @ \ {RStripSlash(Lower(ToDbxPath(local_path_to))),
                                  RStripSlash(Lower(ToDbxPath(local_path_from)))}]
        Handle(s) ==
            IF event.event_type = "created" THEN OnCreated(s, event, reply)
            ELSE IF event.event_type = "moved" THEN OnMoved(s, event, reply)
            ELSE IF event.event_type = "modified" THEN OnModified(s, event, reply)
            ELSE OnDeleted(s, event, reply)
        Wrap(r) ==
            IF r.exc = "none"
              THEN [r.st EXCEPT !.results = Append(@, [event |-> event, res |-> "True"])]
            ELSE IF r.exc = "sync_error"
              THEN [r.st EXCEPT !.results = Append(@, [event |-> event, res |-> "False"]),
                                !.errs = @ \cup {ToDbxPath(local_path_to)}]
            ELSE [r.st EXCEPT !.raised = TRUE]
    IN  Strict(st1, LAMBDA s1 : Strict(Handle(s1), Wrap))

\* the calls of _apply_event on the events in turn; a loop stops at the first
\* exception, the thread pool runs every call it was given
RECURSIVE ApplyEvents(_, _, _)
ApplyEvents(st, tagged, in_pool) ==
    IF tagged = <<>> \/ (st.raised /\ ~in_pool) THEN st
    ELSE Strict(ApplyEvent(st, Head(tagged).event, Head(tagged).reply),
                LAMBDA s : ApplyEvents(s, Tail(tagged), in_pool))

\* UpDownSync.is_mignore for an event that is no move
IsMignore(event, idx, rules) ==
    IF rules = {} THEN FALSE
    ELSE LET dbxp == ToDbxPath(event.src_path)
         IN  IsMignorePath(dbxp, event.is_directory, rules) /\ DictGet(idx, Lower(dbxp)) = NoRev

\* UpDownSync._filter_excluded_changes_local: the event is kept
IsKeptLocal(event, idx, excluded, rules) ==
    LET dbxp == ToDbxPath(GetDestPath(event))
    IN  ~IsExcluded(dbxp) /\ ~IsExcludedByUser(dbxp, excluded) /\ ~IsMignore(event, idx, rules)

\* _filter_excluded_changes_local: the sync errors after the filtering; an event
\* of an item excluded by the user clears the errors of its path when it is a
\* deletion and queues an ExcludedItemError otherwise
RECURSIVE FilterErrors(_, _, _)
FilterErrors(errors, events, excluded) ==
    IF events = <<>> THEN errors
    ELSE LET event == Head(events)
             dbxp == ToDbxPath(GetDestPath(event))
             next == IF IsExcluded(dbxp) \/ ~IsExcludedByUser(dbxp, excluded) THEN errors
                     ELSE IF event.event_type = "deleted" THEN ClearSyncError(errors, dbxp)
                     ELSE errors \cup {dbxp}
         IN  FilterErrors(next, Tail(events), excluded)

\* is_mignore raises ValueError for a move when there are mignore patterns
FilterRaises(events, excluded, rules) ==
    \E i \in 1..Len(events) :
        LET dbxp == ToDbxPath(GetDestPath(events[i]))
        IN  /\ rules # {}
            /\ events[i].event_type = "moved"
            /\ ~IsExcluded(dbxp) /\ ~IsExcludedByUser(dbxp, excluded)

NoBatch == [state |-> "none", events |-> <<>>, local_cursor |-> 0]

\* the local paths of the events to upload
UpPaths == {DropboxPath \o p : p \in {<<Slash, "A">>, <<Slash, "a", Slash, "a", "b">>}}

UpEvents ==
    {FileSystemEvent(t, d, p, NoPath) :
        t \in {"created", "deleted", "modified"}, d \in BOOLEAN, p \in UpPaths}
    \cup {MovedEvent(d, pq[1], pq[2]) :
            d \in BOOLEAN,
            pq \in {pq \in UpPaths \X UpPaths : pq[1] # pq[2]}}

\* upload_worker: events, local_cursor = sync.wait_for_local_changes(timeout=5)
UploadWait(raw) ==
    /\ up_batch.state = "none"
    /\ now < MaxClock
    /\ retrieved + Len(raw) <= MaxUpEvents
    /\ \E order \in Orderings(UniquePaths(SplitMoves(raw, excluded_items, mignore_rules))) :
          up_batch' = [state |-> "pending",
                       events |-> CombineEvents(CleanLocalEvents(raw, order, excluded_items,
                                                                 mignore_rules)),
                       local_cursor |-> now + 1]
    /\ now' = now + 1
    /\ retrieved' = retrieved + Len(raw)
    /\ upload_results' = <<>>
    /\ upload_raised' = FALSE
    /\ UNCHANGED <<last_sync, queued_for_upload>>
    /\ UNCHANGED <<monVars, last_cursor, indexVars, downVars, normVars, handlerVars, conflictVars,
                   roundVars, daemonVars, rootVars, diskVars, fetchVars>>

\* upload_worker: no events, sync.last_sync = local_cursor
UploadNothing ==
    /\ up_batch.state = "pending"
    /\ up_batch.events = <<>>
    /\ up_batch' = NoBatch
    /\ last_sync' = up_batch.local_cursor
    /\ UNCHANGED <<now, retrieved, queued_for_upload, upload_results, upload_raised>>
    /\ UNCHANGED <<monVars, last_cursor, indexVars, downVars, normVars, handlerVars, conflictVars,
                   roundVars, daemonVars, rootVars, diskVars, fetchVars>>

\* apply_local_changes with the directory events applied before the deletions
SequentialEventsDirsFirst(deleted_events, dir_events) == dir_events \o deleted_events

\* apply_local_changes: `for event in deleted_events` and then
\* `for event in dir_events`, the events applied one after the other
SequentialEvents(deleted_events, dir_events) == deleted_events \o dir_events

\* apply_local_changes(events, local_cursor) with the events in hand
ApplyLocalChanges(replies) ==
    /\ up_batch.state = "pending"
    /\ up_batch.events # <<>>
    /\ up_batch' = NoBatch
    /\ LET all == up_batch.events
           tagged == [i \in 1..Len(all) |-> [event |-> all[i], reply |-> replies[i]]]
           Kept(x) == IsKeptLocal(x.event, rev_dict_cache, excluded_items, mignore_rules)
           events == SelectSeq(tagged, Kept)
           IsDirEvent(x) == x.event.is_directory /\ x.event.event_type # "deleted"
           IsFileEvent(x) == ~x.event.is_directory /\ x.event.event_type # "deleted"
           IsDeletedEvent(x) == x.event.event_type = "deleted"
           SrcPath(x) == x.event.src_path
           dir_events == SortBySlashCount(SelectSeq(events, IsDirEvent), SrcPath, FALSE)
           file_events == SelectSeq(events, IsFileEvent)
           deleted_events ==
               SortBySlashCount(SelectSeq(events, IsDeletedEvent), SrcPath, TRUE)
           st0 == [idx |-> rev_dict_cache,
                   errs |-> FilterErrors(sync_errors, all, excluded_items),
                   dlerrs |-> download_errors, queued |-> queued_for_download,
                   downloaded |-> <<>>,
                   raised |-> FilterRaises(all, excluded_items, mignore_rules),
                   queued_up |-> queued_for_upload
                       \cup {GetDestPath(events[i].event) : i \in 1..Len(events)},
                   results |-> <<>>]
           st1 == IF st0.raised
                    THEN [st0 EXCEPT !.queued_up = queued_for_upload]
                    ELSE ApplyEvents(st0, SequentialEvents(deleted_events, dir_events),
                                     FALSE)
           AfterFiles(st, order) ==
               IF st.raised THEN st
               ELSE ApplyEvents(st, [i \in 1..Len(file_events) |-> file_events[order[i]]],
                                TRUE)
       IN  \E order \in CompletionOrders(Len(file_events)) :
           \E st2 \in {AfterFiles(st1, order)} :
           LET success == [i \in 1..Len(file_events) |->
                             st2.results[Len(deleted_events) + Len(dir_events) + i].res]
           IN
           /\ rev_dict_cache' = st2.idx
           /\ sync_errors' = st2.errs
           /\ download_errors' = st2.dlerrs
           /\ queued_for_download' = st2.queued
           /\ queued_for_upload' = st2.queued_up
           /\ upload_results' = st2.results
           /\ upload_raised' = st2.raised
           /\ last_sync' =
                 IF ~st2.raised /\ \A i \in 1..Len(file_events) : success[i] = "True"
                   THEN up_batch.local_cursor
                   ELSE last_sync
    /\ UNCHANGED <<now, retrieved>>
    /\ UNCHANGED <<monVars, last_cursor, index_ops, remote_cursor, changes, excluded_items,
                   apply_result, normVars, handlerVars, conflictVars, roundVars,
                   daemonVars, rootVars, diskVars, fetchVars>>

InitUp ==
    /\ now = 0
    /\ retrieved = 0
    /\ up_batch = NoBatch
    /\ last_sync = 0
    /\ queued_for_upload = {}
    /\ upload_results = <<>>
    /\ upload_raised = FALSE

UpRawLists == UNION {[1..n -> UpEvents] : n \in 0..MaxUpEvents}

\* the call finds nothing at the path and succeeds
PlainReply == [md_old |-> "none", result |-> "ok"]

BatchReplies(n) ==
    {replies \in [1..n -> Replies] :
        Cardinality({i \in 1..n : replies[i] # PlainReply}) <= MaxContended}

NextUp ==
    \/ \E raw \in UpRawLists : UploadWait(raw)
    \/ UploadNothing
    \/ \E replies \in BatchReplies(Len(up_batch.events)) : ApplyLocalChanges(replies)

\* ------------------------------------------- upload, then the change feed

NoEvent == FileSystemEvent("none", FALSE, NoPath, NoPath)

NoRoundTrip ==
    [state |-> "none", event |-> NoEvent, reply |-> PlainReply,
     entry |-> Metadata("deleted", <<>>, NoRev), idx_before |-> <<>>, result |-> "none",
     retries |-> 0]

\* the state of the sync that _apply_event and _create_local_entry work on
SyncState ==
    [idx |-> rev_dict_cache, errs |-> sync_errors, dlerrs |-> download_errors,
     queued |-> queued_for_download, downloaded |-> <<>>, raised |-> FALSE,
     queued_up |-> queued_for_upload, results |-> <<>>]

\* a call of _apply_event(event) by apply_local_changes
CallApplyEvent(event, reply) ==
    /\ round_trip.state # "fed"
    /\ retrieved < MaxUpEvents
    /\ retrieved' = retrieved + 1
    /\ \E st \in {ApplyEvent(SyncState, event, reply)} :
          /\ rev_dict_cache' = st.idx
          /\ sync_errors' = st.errs
          /\ download_errors' = st.dlerrs
          /\ queued_for_download' = st.queued
          /\ queued_for_upload' = st.queued_up
          /\ upload_results' = st.results
          /\ upload_raised' = st.raised
    /\ round_trip' = [NoRoundTrip EXCEPT !.state = "uploaded", !.event = event,
                                         !.reply = reply]
    /\ UNCHANGED <<now, up_batch, last_sync>>
    /\ UNCHANGED <<monVars, last_cursor, index_ops, remote_cursor, changes, excluded_items,
                   apply_result, normVars, handlerVars, conflictVars, daemonVars, rootVars,
                   diskVars, fetchVars>>

\* a call of _create_local_entry(entry) by apply_remote_changes, for an entry of
\* the change feed
CallCreateLocalEntry(entry, local, outcome) ==
    /\ round_trip.state = "uploaded"
    /\ \E st \in {CreateLocalEntry(SyncState, entry, local, outcome)} :
          /\ rev_dict_cache' = st.idx
          /\ sync_errors' = st.errs
          /\ download_errors' = st.dlerrs
          /\ queued_for_download' = st.queued
          /\ round_trip' = [round_trip EXCEPT
                              !.state = "fed", !.entry = entry,
                              !.idx_before = rev_dict_cache,
                              !.result = IF st.raised THEN "raised" ELSE st.downloaded[1]]
    /\ UNCHANGED upVars
    /\ UNCHANGED <<monVars, last_cursor, index_ops, remote_cursor, changes, excluded_items,
                   apply_result, normVars, handlerVars, conflictVars, daemonVars, rootVars,
                   diskVars, fetchVars>>

\* get_remote_item(dbx_path) for a path of download_errors: the item is no folder
\* and its current metadata is given to _create_local_entry again
RetryCreateLocalEntry(entry, local, outcome) ==
    /\ round_trip.state = "fed"
    /\ round_trip.retries < MaxRetries
    /\ RStripSlash(PathLower(round_trip.entry)) \in download_errors
    /\ PathLower(entry) = PathLower(round_trip.entry)
    /\ entry.kind # "folder"
    /\ \E st \in {CreateLocalEntry(SyncState, entry, local, outcome)} :
          /\ rev_dict_cache' = st.idx
          /\ sync_errors' = st.errs
          /\ download_errors' = st.dlerrs
          /\ queued_for_download' = st.queued
          /\ round_trip' = [round_trip EXCEPT
                              !.entry = entry,
                              !.idx_before = rev_dict_cache,
                              !.result = IF st.raised THEN "raised" ELSE st.downloaded[1],
                              !.retries = @ + 1]
    /\ UNCHANGED upVars
    /\ UNCHANGED <<monVars, last_cursor, index_ops, remote_cursor, changes, excluded_items,
                   apply_result, normVars, handlerVars, conflictVars, daemonVars, rootVars,
                   diskVars, fetchVars>>

InitRound == round_trip = NoRoundTrip

NextRound ==
    \/ \E event \in UpEvents, reply \in Replies : CallApplyEvent(event, reply)
    \/ \E entry \in RemoteEntries, local \in LocalStates, outcome \in Outcomes :
          CallCreateLocalEntry(entry, local, outcome)

\* ------------------------------------------- deletions and the index

\* how client.remove ends in _on_deleted: normally, with the NotFoundError or
\* the PathError that _on_deleted catches, or with another error
RemoveResults == {"ok", "not_found", "path_error", "sync_error", "os_error"}

DeletedReplies == [md_old : OldMetadata, result : RemoveResults]

\* a call of _on_deleted(event) for a local item of the index
CallOnDeleted(event, reply) ==
    /\ index_ops < MaxIndexOps
    /\ index_ops' = index_ops + 1
    /\ \E r \in {OnDeleted(SyncState, event, reply)} :
          /\ rev_dict_cache' = r.st.idx
          /\ round_trip' = [NoRoundTrip EXCEPT
                              !.state = "deleted", !.event = event, !.reply = reply,
                              !.idx_before = rev_dict_cache,
                              !.result = IF r.exc = "none" THEN "returned" ELSE "raised"]
    /\ UNCHANGED <<monVars, last_cursor, downVars, normVars, handlerVars, upVars,
                   conflictVars, daemonVars, rootVars, diskVars, fetchVars>>

\* the Deleted events of a folder, of an item in it and of an item next to it
DeletedEvents ==
    {DeletedEvent(d, ToLocalPath(p)) :
        d \in BOOLEAN,
        p \in {<<Slash, "a">>, <<Slash, "a", Slash, "A">>, <<Slash, "a", "b">>}}

NextDeleted ==
    \/ \E p \in IndexPaths, r \in Revs \cup {NoRev} : CallSetLocalRev(p, r)
    \/ \E event \in DeletedEvents, reply \in DeletedReplies : CallOnDeleted(event, reply)

\* ------------------------------------------------------- daemon lock

Procs == 1..MaxProcs

NoProc == 0

\* the threads of the processes; every one uses Lock.singleton of the configuration
ProcThreads == Procs \X (1..MaxProcThreads)

NoProcThread == <<0, 0>>

\* threading.Semaphore.acquire(blocking=False)
SemaphoreAcquire(value) == [gotten |-> value > 0, value |-> IF value > 0 THEN value - 1 ELSE 0]

\* InterProcessLock.acquire(blocking=False) in process p: the lock of the file is
\* granted unless another process holds it
ExternalAcquire(p) == file_lock \in {NoProc, p}

\* Lock.acquire without the internal semaphore
LockAcquireNoInternal(p) ==
    IF ExternalAcquire(p)
      THEN [gotten |-> TRUE, internal |-> internal_lock[p], acquired |-> TRUE, file |-> p]
      ELSE [gotten |-> FALSE, internal |-> internal_lock[p], acquired |-> FALSE,
            file |-> file_lock]

\* Lock.acquire by a thread of process p: whether it returns True, and the locks
\* after the call
LockAcquire(p) ==
    LET internal == SemaphoreAcquire(internal_lock[p])
    IN  IF ~internal.gotten
          THEN [gotten |-> FALSE, internal |-> internal_lock[p],
                acquired |-> external_acquired[p], file |-> file_lock]
        ELSE IF ExternalAcquire(p)
          THEN [gotten |-> TRUE, internal |-> internal.value, acquired |-> TRUE, file |-> p]
        ELSE [gotten |-> FALSE, internal |-> internal.value + 1, acquired |-> FALSE,
              file |-> file_lock]

\* Lock.release by a thread of process p
LockRelease(p) ==
    /\ internal_lock' = [internal_lock EXCEPT ![p] = @ + 1]
    /\ external_acquired' = [external_acquired EXCEPT ![p] = FALSE]
    /\ file_lock' = IF file_lock = p THEN NoProc ELSE file_lock

SetLocks(p, got) ==
    /\ internal_lock' = [internal_lock EXCEPT ![p] = got.internal]
    /\ external_acquired' = [external_acquired EXCEPT ![p] = got.acquired]
    /\ file_lock' = got.file

InstanceLockFree(pt) == instance_lock[pt[1]] \in {NoProcThread, pt}

\* start_maestral_daemon: lock.acquire(), RuntimeError when it returns False
DaemonStart(pt) ==
    /\ daemon_pc[pt] = "idle"
    /\ InstanceLockFree(pt)
    /\ \E got \in {LockAcquire(pt[1])} :
          /\ SetLocks(pt[1], got)
          /\ daemon_pc' = [daemon_pc EXCEPT ![pt] = IF got.gotten THEN "running" ELSE "idle"]
          /\ lock_result' = [thread |-> pt, call |-> "start_maestral_daemon",
                             value |-> IF got.gotten THEN "running" ELSE "RuntimeError"]
    /\ UNCHANGED instance_lock
    /\ UNCHANGED <<monVars, last_cursor, indexVars, downVars, normVars, handlerVars, upVars,
                   conflictVars, roundVars, rootVars, diskVars, fetchVars>>

\* start_maestral_daemon: the event loop ends, finally: lock.release()
DaemonExit(pt) ==
    /\ daemon_pc[pt] = "running"
    /\ InstanceLockFree(pt)
    /\ LockRelease(pt[1])
    /\ daemon_pc' = [daemon_pc EXCEPT ![pt] = "idle"]
    /\ lock_result' = [thread |-> pt, call |-> "release", value |-> "None"]
    /\ UNCHANGED instance_lock
    /\ UNCHANGED <<monVars, last_cursor, indexVars, downVars, normVars, handlerVars, upVars,
                   conflictVars, roundVars, rootVars, diskVars, fetchVars>>

\* is_running / Lock.locked: `with self._lock: gotten = self.acquire()`
LockedAcquire(pt) ==
    /\ daemon_pc[pt] = "idle"
    /\ InstanceLockFree(pt)
    /\ \E got \in {LockAcquire(pt[1])} :
          /\ SetLocks(pt[1], got)
          /\ daemon_pc' = [daemon_pc EXCEPT ![pt] = IF got.gotten THEN "locked_gotten"
                                                    ELSE "idle"]
          /\ instance_lock' =
               [instance_lock EXCEPT ![pt[1]] = IF got.gotten THEN pt ELSE NoProcThread]
          /\ lock_result' = IF got.gotten THEN lock_result
                            ELSE [thread |-> pt, call |-> "locked", value |-> "True"]
    /\ UNCHANGED <<monVars, last_cursor, indexVars, downVars, normVars, handlerVars, upVars,
                   conflictVars, roundVars, rootVars, diskVars, fetchVars>>

\* Lock.locked: `if gotten: self.release()`, `return not gotten`
LockedRelease(pt) ==
    /\ daemon_pc[pt] = "locked_gotten"
    /\ LockRelease(pt[1])
    /\ daemon_pc' = [daemon_pc EXCEPT ![pt] = "idle"]
    /\ instance_lock' = [instance_lock EXCEPT ![pt[1]] = NoProcThread]
    /\ lock_result' = [thread |-> pt, call |-> "locked", value |-> "False"]
    /\ UNCHANGED <<monVars, last_cursor, indexVars, downVars, normVars, handlerVars, upVars,
                   conflictVars, roundVars, rootVars, diskVars, fetchVars>>

\* get_maestral_pid / Lock.locking_pid: the pid of this process when it holds the
\* external lock, else the pid the lock query of the file reports, else None
LockingPid(pt) ==
    /\ daemon_pc[pt] \in {"idle", "running"}
    /\ InstanceLockFree(pt)
    /\ lock_result' =
         [thread |-> pt, call |-> "locking_pid",
          value |-> IF external_acquired[pt[1]] THEN <<"pid", pt[1]>>
                    ELSE IF file_lock \notin {NoProc, pt[1]} THEN <<"pid", file_lock>>
                    ELSE <<"pid", NoProc>>]
    /\ lock_result' # lock_result
    /\ UNCHANGED <<internal_lock, external_acquired, file_lock, instance_lock, daemon_pc>>
    /\ UNCHANGED <<monVars, last_cursor, indexVars, downVars, normVars, handlerVars, upVars,
                   conflictVars, roundVars, rootVars, diskVars, fetchVars>>

InitDaemon ==
    /\ internal_lock = [p \in Procs |-> 1]
    /\ external_acquired = [p \in Procs |-> FALSE]
    /\ file_lock = NoProc
    /\ instance_lock = [p \in Procs |-> NoProcThread]
    /\ daemon_pc = [pt \in ProcThreads |-> "idle"]
    /\ lock_result = [thread |-> NoProcThread, call |-> "none", value |-> "None"]

NextDaemon ==
    \E pt \in ProcThreads :
        \/ DaemonStart(pt)
        \/ DaemonExit(pt)
        \/ LockedAcquire(pt)
        \/ LockedRelease(pt)
        \/ LockingPid(pt)

\* ------------------------------------------------- monitor: specification

\* MaestralMonitor.__init__: all events clear except paused_by_user; no thread
\* exists yet. The cursor is '' as on a first run.
InitMonitor ==
    /\ syncing = FALSE /\ startup = FALSE /\ connected = FALSE
    /\ paused_by_user = TRUE
    /\ running = [g \in 0..MaxStarts |-> FALSE]
    /\ gen = 0
    /\ lock = NoThread
    /\ pc = [t \in Threads |-> IF t = User THEN "idle" ELSE "unstarted"]
    /\ faults = 0 /\ ops = 0
    /\ queued_newly_included_downloads = {}
    /\ pending_downloads = {}
    /\ dbx_path = [g \in Gens |-> 0]
    /\ last_cursor = 0

InitRoot == dropbox_path_isdir = TRUE

\* ------------------------------------------ downloads and the local disk

\* the remote paths of the entries that are applied to the disk
DiskDbxPaths == {<<Slash, "A">>, <<Slash, "a", ".", "b">>}

\* os.path.splitext: the extension starts at the last dot of the last name,
\* unless only dots precede it there
SplitExt(p) ==
    LET first == LastSlash(p) + 1
        dots == {i \in first..Len(p) :
                    p[i] = "." /\ \E j \in first..(i - 1) : p[j] # "."}
        last == IF dots = {} THEN Len(p) + 1 ELSE CHOOSE i \in dots : \A j \in dots : j <= i
    IN  [base |-> SubSeq(p, 1, last - 1), ext |-> SubSeq(p, last, Len(p))]

\* _create_local_entry: ''.join((base, ' (conflicting copy)', ext))
ConflictingCopy(local_path) ==
    SplitExt(local_path).base \o <<" (conflicting copy)">> \o SplitExt(local_path).ext

DiskLocalPaths ==
    {ToLocalPath(p) : p \in DiskDbxPaths} \cup {ConflictingCopy(ToLocalPath(p)) : p \in DiskDbxPaths}

\* what a local path holds: nothing, the file of the last sync, a file that was
\* changed since and has the content (the hash) of the remote item or another
\* content, a folder, or the file downloaded with a revision
Absent == "absent"

DiskContents == {Absent, "synced", "same", "edited", "folder", "rev1", "rev2"}

\* the local item as check_download_conflict sees it: get_ctime against the last
\* sync of the path, then get_local_hash against the remote hash
LocalStateOf(content) ==
    IF content = "same" THEN "same_hash"
    ELSE IF content = "edited" THEN "changed"
    ELSE "unchanged"

DiskEntries ==
    {Metadata("file", p, r) : p \in DiskDbxPaths, r \in {"rev1", "rev2"}}
    \cup {Metadata("folder", p, "folder") : p \in DiskDbxPaths}
    \cup {Metadata("deleted", p, NoRev) : p \in DiskDbxPaths}

NoCreateCall ==
    [state |-> "none", ops |-> 0, entry |-> Metadata("deleted", <<>>, NoRev),
     conflict |-> RemoteNewer, local |-> "unchanged", outcome |-> "ok",
     items_before |-> <<>>, items_after |-> <<>>, idx_before |-> <<>>, idx_after |-> <<>>]

\* _create_local_entry without the renaming of the local item
MoveConflictingCopyNothing(items, local_path) == items

\* _create_local_entry on a conflict: shutil.move(local_path, new_local_file)
MoveConflictingCopy(items, local_path) ==
    [items EXCEPT ![ConflictingCopy(local_path)] = items[local_path],
                  ![local_path] = Absent]

\* _create_local_entry: the local items after the call
LocalItemsAfter(items, entry, conflict, outcome) ==
    LET local_path == ToLocalPath(entry.path_display)
        moved == IF conflict = Conflict THEN MoveConflictingCopy(items, local_path)
                 ELSE items
        isdir == moved[local_path] = "folder"
        isfile == moved[local_path] \notin {Absent, "folder"}
    IN  IF conflict \in {Identical, LocalNewerOrIdentical} THEN items
        ELSE IF entry.kind = "file"
          THEN IF outcome = "ok" THEN [moved EXCEPT ![local_path] = entry.rev]
               ELSE [moved EXCEPT ![local_path] = IF isdir THEN Absent ELSE @]
        ELSE IF entry.kind = "folder"
          THEN IF outcome = "ok" THEN [moved EXCEPT ![local_path] = "folder"]
               ELSE [moved EXCEPT ![local_path] = IF isfile THEN Absent ELSE @]
        ELSE IF outcome = "ok" THEN [moved EXCEPT ![local_path] = Absent]
        ELSE moved

\* the user changes a local item outside of a sync
EditLocalItem(local_path, content) ==
    /\ create_call.ops < MaxDiskOps
    /\ local_items[local_path] # content
    /\ local_items' = [local_items EXCEPT ![local_path] = content]
    /\ create_call' = [create_call EXCEPT !.ops = @ + 1]
    /\ UNCHANGED <<monVars, last_cursor, indexVars, downVars, normVars, handlerVars, upVars,
                   conflictVars, roundVars, daemonVars, rootVars, fetchVars>>

\* a call of _create_local_entry(entry) on the local disk
CreateLocalEntryOnDisk(entry, outcome) ==
    /\ create_call.ops < MaxDiskOps
    /\ LET local == LocalStateOf(local_items[ToLocalPath(entry.path_display)])
           check == CheckDownloadConflict(rev_dict_cache, entry, local)
       IN  \E st \in {CreateLocalEntry([idx |-> rev_dict_cache, errs |-> sync_errors,
                                         dlerrs |-> download_errors,
                                         queued |-> queued_for_download,
                                         downloaded |-> <<>>, raised |-> FALSE],
                                        entry, local, outcome)} :
           \E after \in {LocalItemsAfter(local_items, entry, check.conflict, outcome)} :
              /\ rev_dict_cache' = st.idx
              /\ sync_errors' = st.errs
              /\ download_errors' = st.dlerrs
              /\ queued_for_download' = st.queued
              /\ local_items' = after
              /\ create_call' =
                    [state |-> IF st.raised THEN "raised" ELSE "returned",
                     ops |-> create_call.ops + 1, entry |-> entry,
                     conflict |-> check.conflict, local |-> local, outcome |-> outcome,
                     items_before |-> local_items, items_after |-> after,
                     idx_before |-> rev_dict_cache, idx_after |-> st.idx]
    /\ UNCHANGED <<index_ops, remote_cursor, changes, excluded_items, apply_result>>
    /\ UNCHANGED <<monVars, last_cursor, normVars, handlerVars, upVars, conflictVars,
                   roundVars, daemonVars, rootVars, fetchVars>>

InitDisk ==
    /\ local_items = [p \in DiskLocalPaths |-> Absent]
    /\ create_call = NoCreateCall

NextDisk ==
    \/ \E lp \in {ToLocalPath(p) : p \in DiskDbxPaths}, content \in {"same", "edited"} :
          EditLocalItem(lp, content)
    \/ \E entry \in DiskEntries, outcome \in Outcomes : CreateLocalEntryOnDisk(entry, outcome)

\* ------------------------------------- downloads of items and folders

\* the Dropbox path of a newly included item
ItemPath(i) == IF i = 1 THEN <<Slash, "A">> ELSE <<Slash, "a", Slash, "a", "b">>

\* what is on the server: files and folders, at most one entry for a path, and
\* an entry beneath a path only when a folder is at that path
RemoteTrees ==
    LET entries == {e \in RemoteEntries : e.kind # "deleted" /\ e.rev # "rev2"}
    IN  {t \in SUBSET entries :
            /\ \A e1, e2 \in t : PathLower(e1) = PathLower(e2) => e1 = e2
            /\ \A e \in t : \A p \in DownPaths :
                  IsChild(PathLower(e), Lower(p)) =>
                     \E f \in t : f.kind = "folder" /\ PathLower(f) = Lower(p)}

\* the entries of a listing, a folder before what it holds
RECURSIVE ByDepth(_)
ByDepth(S) ==
    IF S = {} THEN <<>>
    ELSE LET e == CHOOSE x \in S :
                     \A y \in S : SlashCount(x.path_display) <= SlashCount(y.path_display)
         IN  <<e>> \o ByDepth(S \ {e})

\* client.list_folder(dbx_path, recursive=..., include_deleted=False)
ListFolder(tree, dbxp, recursive) ==
    LET parent == RStripSlash(Lower(dbxp))
        Beneath(e) == IsChild(PathLower(e), Lower(dbxp))
        Direct(e) == SlashCount(PathLower(e)) = SlashCount(parent) + 1
    IN  ByDepth({e \in tree : Beneath(e) /\ (recursive \/ Direct(e))})

\* client.get_metadata(dbx_path, include_deleted=True)
GetMetadata(tree, dbxp) ==
    IF \E e \in tree : PathLower(e) = Lower(dbxp)
      THEN CHOOSE e \in tree : PathLower(e) = Lower(dbxp)
      ELSE Metadata("deleted", dbxp, NoRev)

\* apply_remote_changes: `if save_cursor: self.last_cursor = changes.cursor`,
\* which an exception that leaves the call does not reach
SaveCursor(st, save_cursor, cursor) ==
    IF st.raised \/ ~save_cursor THEN st ELSE [st EXCEPT !.cursor = cursor]

\* apply_remote_changes: the downloads of the files, in the order of the listing
ApplyFiles(st, files, local, outcome) ==
    IF st.raised THEN st ELSE ApplyEntries(st, files, local, outcome, TRUE)

\* apply_remote_changes on the entries that are not excluded: the queue, then
\* the deletions, the folders and the files
ApplyIncluded(st, included, local, outcome) ==
    LET IsFile(x) == x.kind = "file"
        IsFolder(x) == x.kind = "folder"
        IsDeleted(x) == x.kind = "deleted"
        folders == SortBySlashCount(SelectSeq(included, IsFolder), PathDisplay, FALSE)
        deleted == SortBySlashCount(SelectSeq(included, IsDeleted), PathDisplay, TRUE)
        queued == {ToLocalPath(included[i].path_display) : i \in 1..Len(included)}
    IN  ApplyFiles(ApplyEntries([st EXCEPT !.queued = @ \cup queued, !.downloaded = <<>>],
                                deleted \o folders, local, outcome, FALSE),
                   SelectSeq(included, IsFile), local, outcome)

\* apply_remote_changes: the deleted items among the excluded entries leave the
\* excluded list
ExcludedAfter(excluded, entries) ==
    LET deleted_excluded == {d \in EntriesDiscarded(entries, excluded) : d.kind = "deleted"}
    IN  CleanExcludedItemsList(
            {f \in excluded : \A d \in deleted_excluded : ~StartsWith(f, PathLower(d))})

\* apply_remote_changes(changes, save_cursor) on a listing. st holds the index,
\* the errors, the queue, the excluded items, last_cursor and whether an
\* exception left the call.
ApplyChanges(st, entries, cursor, save_cursor, local, outcome) ==
    SaveCursor(ApplyIncluded([st EXCEPT !.excl = ExcludedAfter(@, entries)],
                             EntriesFiltered(entries, st.excl), local, outcome),
               save_cursor, cursor)

\* `success` of apply_remote_changes, as get_remote_folder keeps it
WithSuccess(st) ==
    [st EXCEPT !.res = \A i \in 1..Len(st.downloaded) : st.downloaded[i] # "False"]

\* get_remote_folder with every path taken for the root
IsDbxRootAlways(dbxp) == TRUE

\* get_remote_folder: is_dbx_root = dbx_path in ('/', '')
IsDbxRoot(dbxp) == dbxp \in {Root, <<>>}

\* how the calls of the client in get_remote_item and get_remote_folder end:
\* normally, with a SyncError, or with another exception (a ConnectionError)
FetchFaults == {"none", "sync_error", "raises"}

\* get_remote_folder: whether the sub-folders are listed one by one
IgnoreExcluded(excluded, dbxp, ignore_excluded) ==
    ignore_excluded /\ \E f \in excluded : StartsWith(f, dbxp)

\* get_remote_folder: the sub-folders it calls itself for
IncludedFolders(root_result, excluded) ==
    LET IsIncludedFolder(e) ==
            e.kind = "folder" /\ ~IsExcludedByUser(e.path_display, excluded)
    IN  SelectSeq(root_result, IsIncludedFolder)

\* all(success) with the result of one more call
AndSuccess(st, success) == [st EXCEPT !.res = success /\ @]

\* get_remote_folder(dbx_path, ignore_excluded) under catch_sync_issues. `fault`
\* is how get_latest_cursor and list_folder end in this call, `sub_fault` how they
\* end in the calls for the sub-folders. The res of the result is the value
\* returned.
RECURSIVE GetRemoteFolder(_, _, _, _, _, _, _, _)
RECURSIVE GetSubFolders(_, _, _, _, _, _)
RECURSIVE FolderListed(_, _, _, _, _, _, _, _)
GetRemoteFolder(st, dbxp, tree, local, outcome, fault, sub_fault, ignore_excluded) ==
    IF fault = "sync_error" THEN [st EXCEPT !.errs = @ \cup {dbxp}, !.res = FALSE]
    ELSE IF fault = "raises" THEN [st EXCEPT !.raised = TRUE]
    ELSE FolderListed(
             ApplyChanges([st EXCEPT !.server = @ + 1],
                          ListFolder(tree, dbxp,
                                     ~IgnoreExcluded(st.excl, dbxp, ignore_excluded)),
                          st.server + 1, FALSE, local, outcome),
             dbxp, tree, local, outcome, sub_fault,
             IgnoreExcluded(st.excl, dbxp, ignore_excluded), st.server + 1)

\* get_remote_folder after its apply_remote_changes(root_result, save_cursor=False):
\* the sub-folders, then `if is_dbx_root: self.last_cursor = cursor`
FolderListed(st, dbxp, tree, local, outcome, sub_fault, ignore, cursor) ==
    IF st.raised THEN st
    ELSE SaveCursor(
             GetSubFolders(WithSuccess(st),
                           IF ignore
                             THEN IncludedFolders(ListFolder(tree, dbxp, FALSE), st.excl)
                             ELSE <<>>,
                           tree, local, outcome, sub_fault),
             IsDbxRoot(dbxp), cursor)

\* get_remote_folder: `success.append(self.get_remote_folder(entry.path_display))`
\* for the sub-folders in turn
GetSubFolders(st, folders, tree, local, outcome, sub_fault) ==
    IF folders = <<>> \/ st.raised THEN st
    ELSE GetSubFolders(
             AndSuccess(GetRemoteFolder(st, Head(folders).path_display, tree, local,
                                        outcome, sub_fault, sub_fault, TRUE),
                        st.res),
             Tail(folders), tree, local, outcome, sub_fault)

\* the value _create_local_entry returned
WithCreated(st) ==
    IF st.raised THEN st
    ELSE [st EXCEPT !.res = st.downloaded[Len(st.downloaded)] # "False"]

\* get_remote_item after get_metadata has returned md
ItemWithMetadata(st, md, dbxp, tree, local, outcome, fault, sub_fault) ==
    IF md.kind = "folder"
      THEN GetRemoteFolder(st, dbxp, tree, local, outcome, fault, sub_fault, TRUE)
      ELSE WithCreated(CreateLocalEntry([st EXCEPT !.downloaded = <<>>], md,
                                        local[PathLower(md)], outcome[PathLower(md)]))

\* get_remote_item(dbx_path), without its book keeping of pending_downloads; for
\* an item that is no folder `fault` is how get_metadata ends
GetRemoteItem(st, dbxp, tree, local, outcome, fault, sub_fault) ==
    IF fault = "raises" /\ GetMetadata(tree, dbxp).kind # "folder"
      THEN [st EXCEPT !.raised = TRUE]
      ELSE ItemWithMetadata(st, GetMetadata(tree, dbxp), dbxp, tree, local, outcome,
                            fault, sub_fault)

NoFetchCall == [n |-> 0, op |-> "none", dbx_path |-> <<>>, kind |-> "none",
                result |-> "none"]

\* the state of the download sync as the operators above take it
FetchState ==
    [idx |-> rev_dict_cache, errs |-> sync_errors, dlerrs |-> download_errors,
     queued |-> queued_for_download, excl |-> excluded_items, cursor |-> last_cursor,
     server |-> remote_cursor, downloaded |-> <<>>, raised |-> FALSE, res |-> TRUE]

\* the variables take the state that a call leaves
FetchDone(st, op, dbxp, kind) ==
    /\ rev_dict_cache' = st.idx
    /\ sync_errors' = st.errs
    /\ download_errors' = st.dlerrs
    /\ queued_for_download' = st.queued
    /\ excluded_items' = st.excl
    /\ last_cursor' = st.cursor
    /\ remote_cursor' = st.server
    /\ fetch_call' = [n |-> fetch_call.n + 1, op |-> op, dbx_path |-> dbxp, kind |-> kind,
                      result |-> IF st.raised THEN "raised"
                                 ELSE IF st.res THEN "True" ELSE "False"]
    /\ UNCHANGED <<index_ops, changes, apply_result>>
    /\ UNCHANGED <<normVars, handlerVars, upVars, conflictVars, roundVars, daemonVars,
                   rootVars, diskVars>>

\* a call of get_remote_folder(dbx_path), ignore_excluded left at its default;
\* a path other than the root at which the server has no folder ends in the
\* SyncError of the client
CallGetRemoteFolder(dbxp, tree, local, outcome, fault, sub_fault) ==
    /\ fetch_call.n < MaxFetches /\ remote_cursor < MaxCursor
    /\ changes.state = "none"
    /\ IsDbxRoot(dbxp) \/ GetMetadata(tree, dbxp).kind = "folder" \/ fault # "none"
    /\ \E st \in {GetRemoteFolder(FetchState, dbxp, tree, local, outcome, fault,
                                  sub_fault, TRUE)} :
          FetchDone(st, "get_remote_folder", dbxp, "folder")
    /\ UNCHANGED monVars

\* a call of get_remote_item for the path of the item i: pending_downloads holds
\* the item during the call and after an exception
CallGetRemoteItem(i, tree, local, outcome, fault, sub_fault) ==
    /\ fetch_call.n < MaxFetches /\ remote_cursor < MaxCursor
    /\ changes.state = "none"
    /\ \E st \in {GetRemoteItem(FetchState, ItemPath(i), tree, local, outcome, fault,
                                sub_fault)} :
          /\ FetchDone(st, "get_remote_item", ItemPath(i), GetMetadata(tree, ItemPath(i)).kind)
          /\ pending_downloads' = IF st.raised THEN pending_downloads \cup {i}
                                  ELSE pending_downloads \ {i}
    /\ UNCHANGED <<flagVars, gen, lock, pc, envVars, ops, queued_newly_included_downloads,
                   dbx_path>>

InitFetch == fetch_call = NoFetchCall

\* the paths of get_remote_folder: the root in its two spellings, and the items
FetchFolderPaths == {Root, <<>>} \cup DownPaths

FetchLocals == {[p \in {Lower(q) : q \in DownPaths} |-> l] : l \in LocalStates}

FetchOutcomes == {[p \in {Lower(q) : q \in DownPaths} |-> o] : o \in Outcomes}

\* the download operations: the change feed, and the downloads of folders and
\* of single items
NextFetch ==
    \/ \E tree \in RemoteTrees : ListRemoteChanges(ListFolder(tree, Root, TRUE))
    \/ \E save_cursor \in BOOLEAN, local \in FetchLocals, outcome \in FetchOutcomes :
          ApplyRemoteChanges(save_cursor, local, outcome)
    \/ \E folder_list \in SUBSET ExcludablePaths : SetExcludedItems(folder_list)
    \/ \E tree \in RemoteTrees, local \in FetchLocals, outcome \in FetchOutcomes,
          fault \in FetchFaults, sub_fault \in {"none", "sync_error"} :
          \/ \E dbxp \in FetchFolderPaths :
                CallGetRemoteFolder(dbxp, tree, local, outcome, fault, sub_fault)
          \/ \E i \in 1..2 : CallGetRemoteItem(i, tree, local, outcome, fault, sub_fault)

Init ==
    /\ InitMonitor /\ InitIndex /\ InitDown /\ InitNorm /\ InitHandler /\ InitUp
    /\ InitConflict /\ InitRound /\ InitDaemon /\ InitRoot /\ InitDisk /\ InitFetch

\* One step of the worker thread t
WorkerStep(t) ==
       \/ WorkerLoop(t)
       \/ OnConnectionError1(t) \/ OnConnectionError2(t)
       \/ OnFatalError1(t) \/ OnFatalError2(t)
       \/ ConnProbe(t) \/ ConnCheckConnected(t) \/ ConnCheckPaused(t)
       \/ ConnSetStartup(t) \/ ConnSetConnected(t)
       \/ StartupWait(t) \/ StartupAssert(t) \/ StartupLock(t)
       \/ StartupInitialDownload(t) \/ StartupCheckRunning1(t)
       \/ StartupRetryAndUpload(t) \/ StartupCheckRunning2(t)
       \/ StartupCheckPaused(t) \/ StartupSetSyncing(t)
       \/ StartupClearStartup(t) \/ StartupExit(t)
       \/ SyncingWait(t) \/ CheckRunning(t) \/ CheckSyncing(t)
       \/ DownloadPoll(t) \/ DownloadLock(t) \/ DownloadBatch(t)
       \/ AddedGet(t) \/ AddedCheckRunning(t) \/ AddedCheckSyncing(t)
       \/ AddedPending(t) \/ AddedLock(t) \/ AddedBatch(t)
       \/ UploadCollect(t) \/ UploadLock(t) \/ UploadBatch(t)

NextWorker == \E t \in Workers : WorkerStep(t)

NextUser ==
    \/ Start \/ StartSetRunning \/ StartClearSyncing \/ StartSetConnected
    \/ StartSetStartup \/ StartThread \/ StartClearPaused
    \/ Pause \/ PauseClearSyncing \/ WaitForIdleAcquire \/ WaitForIdleRelease
    \/ Resume \/ ResumeClearPaused
    \/ Stop \/ StopClearSyncing \/ StopClearPaused \/ StopClearStartup
    \/ StopJoinConnection \/ StopJoinUpload

NextEnv == \E i \in Items : Include(i)

Next == NextWorker \/ NextUser \/ NextEnv

Spec == Init /\ [][Next]_vars

SpecIndex == Init /\ [][NextIndex]_vars

SpecDown == Init /\ [][NextDown]_vars

SpecDisk == Init /\ [][NextDisk]_vars

SpecFetch == Init /\ [][NextFetch]_vars

SpecDeleted == Init /\ [][NextDeleted]_vars

SpecNorm == Init /\ [][NextNorm]_vars

SpecHist == Init /\ [][NextHist]_vars

SpecHandler == Init /\ [][NextHandler]_vars

SpecUp == Init /\ [][NextUp]_vars

SpecConflict == Init /\ [][NextConflict]_vars

SpecRound == Init /\ [][NextRound]_vars

NextRetry ==
    \/ NextRound
    \/ \E entry \in RemoteEntries, local \in LocalStates, outcome \in Outcomes :
          RetryCreateLocalEntry(entry, local, outcome)

SpecRetry == Init /\ [][NextRetry]_vars

SpecDaemon == Init /\ [][NextDaemon]_vars

\* ------------------------------------------------------ monitor: claims

\* C1: at any time at most one worker executes a batch (the upload batch, the
\* download batch, the added-item download, the startup reconciliation), and a
\* worker executes its batch only while it holds sync.lock.
C1_BatchesExclusive ==
    /\ \A t \in Workers : InBatch(t) => lock = t
    /\ \A t1, t2 \in Workers : InBatch(t1) /\ InBatch(t2) => t1 = t2

\* C1 witness: an upload batch is executing while the download worker, which has
\* changes to apply, waits for the lock.
C1_Witness ==
    \E g \in Gens : pc[<<g, "up">>] = "u_batch" /\ pc[<<g, "down">>] = "d_lock"

\* C2: `startup` and `syncing` are never both set.
C2_StartupExcludesSyncing == ~(startup /\ syncing)

\* -------------------------------------------------- revision index: claims

\* C5: every strict ancestor, other than the root, of every path of the index
\* maps to "folder".
C5_AncestorsAreFolders ==
    \A p \in DOMAIN rev_dict_cache : \A q \in IndexPaths \ {Root} :
        IsAncestor(q, p) => DictGet(rev_dict_cache, q) = "folder"

\* C28: a call set_local_rev(P, None) for the path P of an item leaves the index
\* without an entry for P and for every path beneath P, and with every other
\* entry as it was.
C28_RemoveExactlySubtree ==
    [][\A p \in IndexPaths \ {Root} :
          index_ops' = index_ops + 1
          /\ rev_dict_cache' = SetLocalRev(rev_dict_cache, p, NoRev) =>
             \A k \in IndexPaths :
                IF k = Lower(p) \/ IsChild(k, Lower(p))
                  THEN k \notin DOMAIN rev_dict_cache'
                  ELSE DictGet(rev_dict_cache', k) = DictGet(rev_dict_cache, k)]_vars

\* --------------------------------------------------- download sync: claims

\* C3: apply_remote_changes moves last_cursor only when every entry was applied
\* successfully; after a sync error or an exception the cursor is unchanged.
C3_CursorOnlyOnSuccess ==
    [][last_cursor' # last_cursor =>
         apply_result'.state = "returned" /\ apply_result'.success]_vars

\* ---------------------------------------------------- local events: claims

\* the burst of the last wait_for_local_changes after the splitting of the moves
SplitBurst == SplitMoves(burst, excluded_items, mignore_rules)

NCreated(h) == Count(h, LAMBDA e : e.event_type = "created")
NDeleted(h) == Count(h, LAMBDA e : e.event_type = "deleted")

\* the events of a list that refer to a path
EventsFor(events, path) ==
    LET Refers(e) == e.src_path = path \/ e.dest_path = path
    IN  SelectSeq(events, Refers)

\* C7: the output of _clean_local_events has at most one event per src_path,
\* except for a Deleted+Created pair of a path whose kind changed.
C7_OneEventPerPath ==
    \A path \in UniquePaths(cleaned) :
        LET h == History(cleaned, path)
        IN  \/ Len(h) = 1
            \/ /\ Len(h) = 2
               /\ h[1].event_type = "deleted"
               /\ h[2].event_type = "created"
               /\ h[1].is_directory # h[2].is_directory

\* C29: for a path with two or more events in the burst after the splitting of
\* moves, the normalizer emits exactly one event when the numbers of Created and
\* Deleted events differ: with more Created events a Created event of the kind
\* of the last event, with fewer a Deleted event of the kind of the first.
C29_NetCreatedOrDeleted ==
    [][local_file_event_queue # <<>> /\ local_file_event_queue' = <<>> =>
         LET split == SplitMoves(local_file_event_queue, excluded_items, mignore_rules)
         IN  \A path \in UniquePaths(split) :
                LET h == History(split, path)
                    n_created == Len(SelectSeq(h, LAMBDA e : e.event_type = "created"))
                    n_deleted == Len(SelectSeq(h, LAMBDA e : e.event_type = "deleted"))
                    out == History(cleaned', path)
                IN  /\ Len(h) >= 2 /\ n_created > n_deleted =>
                          out = <<CreatedEvent(h[Len(h)].is_directory, path)>>
                    /\ Len(h) >= 2 /\ n_created < n_deleted =>
                          out = <<DeletedEvent(h[1].is_directory, path)>>]_vars

\* Moves of a folder, of a folder in it and of an item in that folder to the same
\* places in another folder
NestedMoves ==
    {MovedEvent(d, DropboxPath \o <<Slash, "a">> \o tail, DropboxPath \o <<Slash, "a", "b">> \o tail) :
        d \in BOOLEAN, tail \in {<<>>, <<Slash, "a">>, <<Slash, "a", Slash, "a">>}}

NextNested ==
    \/ \E event \in NestedMoves : PutEvent(event)
    \/ WaitForLocalChanges

SpecNested == Init /\ [][NextNested]_vars

\* the elements of a list of events
Elements(events) == {events[i] : i \in 1..Len(events)}

\* x is the move of an item from inside the source of the move D to inside its
\* destination
MoveInside(x, D) ==
    /\ x.event_type = "moved"
    /\ IsChild(x.src_path, D.src_path)
    /\ IsChild(x.dest_path, D.dest_path)

C8_NormalizationIdempotent ==
    \A order \in Orderings(UniquePaths(SplitMoves(local_changes, excluded_items,
                                                  mignore_rules))) :
        LET again == CombineEvents(CleanLocalEvents(local_changes, order,
                                                    excluded_items, mignore_rules))
        IN  {again[i] : i \in 1..Len(again)}
                = {local_changes[i] : i \in 1..Len(local_changes)}

\* C9: a path whose history in the burst begins with a Created event and has as
\* many Created as Deleted events gets no event from the normalizer.
C9_TemporaryItemVanishes ==
    \A path \in UniquePaths(SplitBurst) :
        LET h == History(SplitBurst, path)
        IN  h[1].event_type = "created" /\ NCreated(h) = NDeleted(h)
                => EventsFor(cleaned, path) = <<>> /\ EventsFor(local_changes, path) = <<>>

\* a burst of two creations alternating with two deletions of one path has been
\* normalized
C9_Witness ==
    /\ Len(burst) = 4
    /\ \A i \in 1..4 : burst[i].src_path = HistoryPath
    /\ \A i \in {1, 3} : burst[i].event_type = "created"
    /\ \A i \in {2, 4} : burst[i].event_type = "deleted"
    /\ cleaned = <<>>

\* C10: a path whose history in the burst has as many Created as Deleted events,
\* starts with a Deleted of one kind and ends with an event of the other kind gets
\* exactly the Deleted of the old kind followed by the Created of the new kind.
C10_KindChangeGivesPair ==
    \A path \in UniquePaths(SplitBurst) :
        LET h == History(SplitBurst, path)
        IN  /\ NCreated(h) = NDeleted(h)
            /\ h[1].event_type = "deleted"
            /\ h[Len(h)].is_directory # h[1].is_directory
            => EventsFor(cleaned, path)
                   = <<DeletedEvent(h[1].is_directory, path),
                       CreatedEvent(h[Len(h)].is_directory, path)>>

\* ---------------------------------------------------- event handler: claims

\* the path is the path P or a path beneath P, whatever the case of the letters
AtOrBeneath(path, P) == Lower(path) = Lower(P) \/ IsAncestor(Lower(P), Lower(path))

\* the event refers, with its src_path or with the dest_path of a move, to a path
\* that is being downloaded or lies beneath one
RefersToDownloading(event) ==
    \E P \in queue_downloading :
        \/ AtOrBeneath(event.src_path, P)
        \/ event.event_type = "moved" /\ AtOrBeneath(event.dest_path, P)

\* C6: the handler puts no event on the local event queue for a raw event that
\* refers to a path in queue_downloading or beneath one, be it as src_path or as
\* the dest_path of a move.
C6_DownloadingPathsSuppressed ==
    [][\A event \in RawEvents, listing \in ListingCases :
          OnAnyEvent(event, listing) /\ RefersToDownloading(event)
              => UNCHANGED local_file_event_queue]_vars

\* the place of a remote entry in a batch: deletions, then folders, then files
DownloadRank(entry) ==
    IF entry.kind = "deleted" THEN 1 ELSE IF entry.kind = "folder" THEN 2 ELSE 3

\* C22: in the order in which one batch of apply_remote_changes applied its
\* entries, every deletion precedes every folder and every folder precedes every
\* file; the deletions go from the deepest path to the shallowest, the folders
\* from the shallowest to the deepest.
C22_DownloadBatchOrder ==
    \A i, j \in 1..Len(apply_result.applied) :
        i < j =>
          LET a == apply_result.applied[i]
              b == apply_result.applied[j]
          IN  /\ DownloadRank(a) <= DownloadRank(b)
              /\ DownloadRank(a) = 1 /\ DownloadRank(b) = 1
                    => SlashCount(a.path_display) >= SlashCount(b.path_display)
              /\ DownloadRank(a) = 2 /\ DownloadRank(b) = 2
                    => SlashCount(a.path_display) <= SlashCount(b.path_display)

C22_Witness ==
    /\ Len(apply_result.applied) = 2
    /\ DownloadRank(apply_result.applied[1]) = 1
    /\ DownloadRank(apply_result.applied[2]) = 2
    /\ SlashCount(apply_result.applied[1].path_display)
          > SlashCount(apply_result.applied[2].path_display)

\* Remote changes in and around a folder that the user can exclude, one of them
\* for an item with the name of an office temporary file
SelectivePaths == {<<Slash, "a">>, <<Slash, "a", Slash, "~", "$">>}

SelectiveEntries ==
    {Metadata("file", p, "rev1") : p \in SelectivePaths}
    \cup {Metadata("deleted", p, NoRev) : p \in SelectivePaths}

SelectiveEntryLists == UNION {[1..n -> SelectiveEntries] : n \in 0..MaxEntries}

NextSelective ==
    \/ \E entries \in SelectiveEntryLists : ListRemoteChanges(entries)
    \/ \E save_cursor \in BOOLEAN,
          local \in [EntryPaths(changes.entries) -> LocalStates],
          outcome \in [EntryPaths(changes.entries) -> Outcomes] :
            ApplyRemoteChanges(save_cursor, local, outcome)
    \/ \E folder_list \in SUBSET SelectivePaths : SetExcludedItems(folder_list)

SpecSelective == Init /\ [][NextSelective]_vars

\* the deletions of the listed changes whose path the user has excluded
ExcludedDeletions ==
    {d \in {changes.entries[i] : i \in 1..Len(changes.entries)} :
        d.kind = "deleted" /\ IsExcludedByUser(PathLower(d), excluded_items)}

\* C25: when apply_remote_changes returns, then for every deletion of the batch
\* whose path P the user had excluded, excluded_items holds no entry equal to or
\* beneath P, no call of _create_local_entry has deleted the local item of P, and
\* no sync error was recorded for P.
C25_ExcludedDeletion ==
    [][changes.state = "listed" /\ apply_result'.state = "returned" =>
         \A d \in ExcludedDeletions :
            /\ \A f \in excluded_items' : f # PathLower(d) /\ ~IsChild(f, PathLower(d))
            /\ \A k \in 1..Len(apply_result'.applied) :
                  apply_result'.applied[k] = d => apply_result'.downloaded[k] # "entry"
            /\ \A e \in sync_errors' \ sync_errors : Lower(e) # PathLower(d)]_vars

\* the mignore_rules property: the mignore file has changed and its patterns,
\* plain names here, are loaded again
LoadMignoreRules(rules) ==
    /\ rules # mignore_rules
    /\ mignore_rules' = rules
    /\ UNCHANGED <<local_file_event_queue, burst, cleaned, local_changes>>
    /\ UNCHANGED <<monVars, last_cursor, indexVars, downVars, handlerVars, upVars, conflictVars,
                   roundVars, daemonVars, rootVars, diskVars, fetchVars>>

\* Items that are moved between an ordinary place, a folder that the user or a
\* pattern can exclude, and the name of an office temporary file
SplitDbxPaths == {<<Slash, "a">>, <<Slash, "b", Slash, "a">>, <<Slash, "~", "$">>}

SplitEvents ==
    {MovedEvent(d, DropboxPath \o pq[1], DropboxPath \o pq[2]) :
        d \in BOOLEAN, pq \in {pq \in SplitDbxPaths \X SplitDbxPaths : pq[1] # pq[2]}}
    \cup {ModifiedEvent(FALSE, DropboxPath \o <<Slash, "a">>)}

NextSplit ==
    \/ \E event \in SplitEvents : PutEvent(event)
    \/ WaitForLocalChanges
    \/ \E folder_list \in SUBSET {<<Slash, "b">>} : SetExcludedItems(folder_list)
    \/ \E rules \in SUBSET {<<"b">>} : LoadMignoreRules(rules)

SpecSplit == Init /\ [][NextSplit]_vars

\* the item at a local path is excluded from syncing: by its name, by the user's
\* list or by a pattern
ExcludedEndpoint(local_path, is_dir) ==
    LET dbxp == ToDbxPath(local_path)
    IN  \/ IsExcluded(dbxp)
        \/ IsExcludedByUser(dbxp, excluded_items)
        \/ IsMignorePath(dbxp, is_dir, mignore_rules)

\* the moves of the queued events of which exactly one endpoint is excluded
HalfExcludedMoves ==
    {e \in {local_file_event_queue[i] : i \in 1..Len(local_file_event_queue)} :
        /\ e.event_type = "moved"
        /\ ExcludedEndpoint(e.src_path, e.is_directory)
             # ExcludedEndpoint(e.dest_path, e.is_directory)}

\* C26: when wait_for_local_changes has cleaned a burst, no Moved event is left
\* for the paths of a move of which exactly one endpoint was excluded; when that
\* move was the only event of the burst, the cleaned events are Deleted(src) and
\* Created(dest), and the one at the included endpoint passes the filter of
\* excluded items.
C26_HalfExcludedMoveSplit ==
    [][local_file_event_queue # <<>> /\ local_file_event_queue' = <<>> =>
         \A e \in HalfExcludedMoves :
            /\ \A k \in 1..Len(cleaned') :
                  cleaned'[k].event_type = "moved" =>
                     {cleaned'[k].src_path, cleaned'[k].dest_path}
                        \cap {e.src_path, e.dest_path} = {}
            /\ Len(local_file_event_queue) = 1 =>
                  /\ {cleaned'[k] : k \in 1..Len(cleaned')}
                        = {DeletedEvent(e.is_directory, e.src_path),
                           CreatedEvent(e.is_directory, e.dest_path)}
                  /\ \E k \in 1..Len(cleaned') :
                        /\ ~ExcludedEndpoint(cleaned'[k].src_path, e.is_directory)
                        /\ IsKeptLocal(cleaned'[k], rev_dict_cache, excluded_items,
                                       mignore_rules)]_vars

\* ------------------------------ downloads of items and folders: claims

\* C40: a call of get_remote_item, and a call of get_remote_folder for a path
\* other than the root, leaves last_cursor as it was, however the call ends; a
\* download operation that changes last_cursor is a get_remote_folder for the
\* root or an apply_remote_changes with save_cursor=True.
C40_CursorWrittenForRootOnly ==
    [][/\ fetch_call' # fetch_call
          /\ (fetch_call'.op = "get_remote_item" \/ fetch_call'.dbx_path \notin {Root, <<>>})
          => last_cursor' = last_cursor
       /\ last_cursor' # last_cursor =>
             \/ /\ fetch_call' # fetch_call
                /\ fetch_call'.op = "get_remote_folder"
                /\ fetch_call'.dbx_path \in {Root, <<>>}
             \/ /\ fetch_call' = fetch_call
                /\ \E local \in FetchLocals, outcome \in FetchOutcomes :
                      ApplyRemoteChanges(TRUE, local, outcome)]_vars

\* C40 witness: the folder of an item was downloaded by get_remote_item, its
\* listing applied without an error, after a cursor had been saved.
C40_Witness ==
    /\ fetch_call.op = "get_remote_item" /\ fetch_call.kind = "folder"
    /\ fetch_call.result = "True"
    /\ last_cursor # 0
    /\ \E p \in DOMAIN rev_dict_cache : IsChild(p, Lower(fetch_call.dbx_path))

\* ------------------------------------------ deletions and the index: claims

\* C32: when a call of _on_deleted for the path P returns without an exception
\* (the remote item was removed, was not found, had changed since the last sync,
\* or had changed its kind), the index holds no entry for P or for a path
\* beneath P.
C32_DeletedLeavesNoEntry ==
    [][/\ round_trip'.state = "deleted" /\ round_trip'.result = "returned"
       /\ CallOnDeleted(round_trip'.event, round_trip'.reply)
       => \A k \in DOMAIN rev_dict_cache' :
             LET path == Lower(ToDbxPath(round_trip'.event.src_path))
             IN  k # path /\ ~IsChild(k, path)]_vars

\* C32 witness: the index held a folder and an item in it, the deletion of the
\* folder met a path error of the server, and the call has returned.
C32_Witness ==
    LET path == Lower(ToDbxPath(round_trip.event.src_path))
    IN  /\ round_trip.state = "deleted" /\ round_trip.result = "returned"
        /\ round_trip.reply.result = "path_error"
        /\ DictGet(round_trip.idx_before, path) = "folder"
        /\ \E k \in DOMAIN round_trip.idx_before : IsChild(k, path)
        /\ \A k \in DOMAIN rev_dict_cache : k # path /\ ~IsChild(k, path)

\* ------------------------------------- downloads and the local disk: claims

\* what applying an entry leaves at its local path
AppliedContent(entry) ==
    IF entry.kind = "file" THEN entry.rev
    ELSE IF entry.kind = "folder" THEN "folder"
    ELSE Absent

\* the last call of _create_local_entry returned on a verdict that says to apply
\* the entry: after a conflict the conflicting copy holds what the local path
\* held, and when the download or the disk did not fail the local path holds
\* the remote item and the index its rev
AppliedAsVerdictSays ==
    LET c == create_call
        local_path == ToLocalPath(c.entry.path_display)
        copy == ConflictingCopy(local_path)
    IN  /\ c.conflict = Conflict =>
              c.items_after[copy] = c.items_before[local_path]
        /\ c.conflict = RemoteNewer => c.items_after[copy] = c.items_before[copy]
        /\ c.outcome = "ok" =>
              /\ c.items_after[local_path] = AppliedContent(c.entry)
              /\ DictGet(c.idx_after, PathLower(c.entry)) = c.entry.rev

\* C31 as stated: on Identical or LocalNewerOrIdentical _create_local_entry
\* changes neither the disk nor the rev of the path; on Conflict it moves the
\* local item to the conflicting copy and applies the entry; on RemoteNewer it
\* applies the entry.
C31_SkipChangesNothing ==
    create_call.state # "none" =>
        LET c == create_call
            path == PathLower(c.entry)
        IN  IF c.conflict \in {Identical, LocalNewerOrIdentical}
              THEN /\ c.items_after = c.items_before
                   /\ DictGet(c.idx_after, path) = DictGet(c.idx_before, path)
              ELSE AppliedAsVerdictSays

\* C31: on Identical or LocalNewerOrIdentical _create_local_entry leaves the
\* disk as it is, and the rev of the path as well unless the local item has the
\* content of the remote file or folder, in which case the rev of the path
\* becomes the remote rev; on Conflict it moves the local item to the
\* conflicting copy and applies the entry; on RemoteNewer it applies the entry.
C31_ActsOnVerdict ==
    create_call.state # "none" =>
        LET c == create_call
            path == PathLower(c.entry)
        IN  IF c.conflict \in {Identical, LocalNewerOrIdentical}
              THEN /\ c.items_after = c.items_before
                   /\ DictGet(c.idx_after, path) =
                         IF c.local = "same_hash" /\ c.entry.kind # "deleted"
                           THEN c.entry.rev
                           ELSE DictGet(c.idx_before, path)
              ELSE AppliedAsVerdictSays

\* C31 witness: a file that was edited locally conflicts with the remote file;
\* the call has moved it to the conflicting copy and downloaded the remote file.
C31_Witness ==
    LET c == create_call
        local_path == ToLocalPath(c.entry.path_display)
    IN  /\ c.state = "returned" /\ c.conflict = Conflict /\ c.entry.kind = "file"
        /\ c.outcome = "ok"
        /\ c.items_before[local_path] = "edited"
        /\ local_items[ConflictingCopy(local_path)] = "edited"
        /\ local_items[local_path] = c.entry.rev

\* C34: when apply_remote_changes filters the listed changes, the entries kept
\* by filter_excluded_changes_remote are neither excluded by their name nor by
\* the user, the other entries are the discarded ones, the kept and the
\* discarded entries have no entry in common and make up the input, and no
\* excluded entry is handed to _create_local_entry.
C34_FilterRemovesExcluded ==
    [][changes.state = "listed" /\ changes'.state = "none" =>
         LET entries == Elements(changes.entries)
             filtered == Elements(EntriesFiltered(changes.entries, excluded_items))
             discarded == EntriesDiscarded(changes.entries, excluded_items)
             Excluded(e) == \/ IsExcluded(PathLower(e))
                            \/ IsExcludedByUser(PathLower(e), excluded_items)
         IN  /\ \A e \in filtered : ~Excluded(e)
             /\ \A e \in entries \ filtered : e \in discarded
             /\ filtered \cap discarded = {}
             /\ filtered \cup discarded = entries
             /\ \A e \in Elements(apply_result'.applied) : ~Excluded(e)]_vars

\* ----------------------------------------------------- upload sync: claims

\* C4: apply_local_changes moves last_sync only when every event of the batch,
\* deletions and directory events included, was applied without a sync error.
C4_LastSyncOnlyOnSuccess ==
    [][up_batch.events # <<>> /\ last_sync' # last_sync =>
         /\ ~upload_raised'
         /\ \A i \in 1..Len(upload_results') : upload_results'[i].res = "True"]_vars

\* the place of an event in a batch: deletions, then directories, then files
UploadRank(event) ==
    IF event.event_type = "deleted" THEN 1 ELSE IF event.is_directory THEN 2 ELSE 3

\* C21: in the order in which one batch of apply_local_changes applied its
\* events, every deletion precedes every directory event and every directory
\* event precedes every file event; the deletions go from the deepest src_path
\* to the shallowest, the directory events from the shallowest to the deepest.
C21_UploadBatchOrder ==
    \A i, j \in 1..Len(upload_results) :
        i < j =>
          LET a == upload_results[i].event
              b == upload_results[j].event
          IN  /\ UploadRank(a) <= UploadRank(b)
              /\ UploadRank(a) = 1 /\ UploadRank(b) = 1
                    => SlashCount(a.src_path) >= SlashCount(b.src_path)
              /\ UploadRank(a) = 2 /\ UploadRank(b) = 2
                    => SlashCount(a.src_path) <= SlashCount(b.src_path)

C21_Witness ==
    /\ Len(upload_results) = 2
    /\ UploadRank(upload_results[1].event) = 1
    /\ UploadRank(upload_results[2].event) = 2
    /\ SlashCount(upload_results[1].event.src_path)
          < SlashCount(upload_results[2].event.src_path)

\* --------------------------------------------------- conflict check: claims

UploadedAsCreated ==
    /\ round_trip.event.event_type = "created"
    /\ ~round_trip.event.is_directory
    /\ round_trip.reply.result = "ok"
    /\ round_trip.reply.md_old # "file_same"

\* the entry of the change feed for the uploaded file, with the rev of the upload
UploadedEntry == Metadata("file", ToDbxPath(round_trip.event.src_path), "rev2")

\* C12: an entry of the change feed for a file that was created locally and
\* uploaded without a rename, carrying the rev of the upload, is found identical:
\* _create_local_entry downloads nothing and leaves the index as it is.
C12_UploadedFileNotDownloaded ==
    round_trip.state = "fed" /\ UploadedAsCreated /\ round_trip.entry = UploadedEntry =>
        /\ round_trip.result = "True"
        /\ rev_dict_cache = round_trip.idx_before

\* the feed reports the uploaded file while the local file has changed again
C12_Witness ==
    /\ round_trip.state = "fed"
    /\ UploadedAsCreated
    /\ round_trip.entry = UploadedEntry
    /\ round_trip.reply.md_old = "file_other"
    /\ DictGet(rev_dict_cache, PathLower(round_trip.entry)) = "rev2"

\* the last _apply_event made the call of the server that applies its event
\* (upload, make_dir or move), and the server put the item at another path than
\* the requested one
ServerRenamed ==
    LET e == round_trip.event
        old == round_trip.reply.md_old
    IN  /\ round_trip.state = "uploaded"
        /\ round_trip.reply.result = "renamed"
        /\ \/ /\ e.event_type \in {"created", "moved"}
              /\ ~(e.is_directory /\ old = "folder" /\ e.event_type = "created")
              /\ ~(~e.is_directory /\ old = "file_same" /\ e.event_type = "created")
           \/ e.event_type = "modified" /\ ~e.is_directory /\ old # "file_same"

\* C33: when the server has put an uploaded, created or moved item at another
\* path than the requested one, the index holds the rev of the item under the
\* path the server chose, and under the requested path the rev of the remote
\* original, which was fetched again.
C33_ServerRenameHandled ==
    ServerRenamed =>
        LET e == round_trip.event
            dbx_path_to == ToDbxPath(GetDestPath(e))
        IN  /\ DictGet(rev_dict_cache, Lower(RenamedPath(dbx_path_to)))
                  = (IF e.is_directory THEN "folder" ELSE "rev2")
            /\ DictGet(rev_dict_cache, Lower(dbx_path_to)) \in {"rev1", "folder"}

\* neither sync_errors nor download_errors holds the path
NoErrorFor(errors, dlerrors, dbxp) ==
    /\ \A e \in errors : Lower(e) # Lower(dbxp)
    /\ RStripSlash(Lower(dbxp)) \notin dlerrors

LockHolders == {pt \in ProcThreads : daemon_pc[pt] \in {"running", "locked_gotten"}}

\* C13: between an acquire() of the daemon lock that returned True and its
\* release(), no other acquire() returns True, in another process or in another
\* thread of the process: at most one thread holds the lock, and at most one
\* daemon runs for the configuration.
C13_DaemonLockExclusive == Cardinality(LockHolders) <= 1

\* a daemon runs in one process while start_maestral_daemon has just failed in
\* another
C13_Witness ==
    /\ \E pt \in ProcThreads : daemon_pc[pt] = "running" /\ pt[1] # lock_result.thread[1]
    /\ lock_result.call = "start_maestral_daemon"
    /\ lock_result.value = "RuntimeError"

\* pause() has returned and neither resume() nor stop() has been called since
PauseReturned == pc[User] = "idle" /\ paused_by_user

\* the upload worker and the download worker of the monitor are outside their
\* batches
NoBatchExecuting ==
    \A t \in Workers : t[1] = gen => pc[t] \notin {"u_batch", "d_batch"}

\* the step with which stop() returns
StopReturns == pc[User] = "x_join_up" /\ pc'[User] = "idle"

\* C36: from the return of pause() until resume() or stop() is called, neither
\* the upload worker nor the download worker of the monitor executes a batch,
\* and none executes a batch when stop() returns.
C36_NoBatchAfterPauseOrStop ==
    /\ [](PauseReturned => NoBatchExecuting)
    /\ [][StopReturns => NoBatchExecuting']_vars

\* C37: from the return of pause() until resume() or stop() is called, while
\* `paused_by_user` is set, `syncing` is clear.
C37_PausedStaysNotSyncing == PauseReturned => ~syncing

\* rebuild_index has reset last_cursor and has yet to call start() or resume()
RebuildHasReset == pc[User] \in {"b_clear_index", "b_restart"}

\* C38: rebuild_index resets last_sync, last_cursor and the index while no
\* worker is inside a batch, and no worker writes last_cursor or the index
\* between the reset and the start() or resume() that ends rebuild_index, so
\* that the startup run then finds last_cursor == '' and an empty index.
C38_RebuildResetsWhileIdle ==
    /\ [][pc[User] \in {"b_last_sync", "b_last_cursor", "b_clear_index"}
          /\ pc'[User] # pc[User] => \A t \in Workers : ~InBatch(t)]_vars
    /\ [](RebuildHasReset => last_cursor = 0)
    /\ [](pc[User] = "b_restart" => rev_dict_cache = <<>>)

\* C35: when start_maestral_daemon raises RuntimeError('Maestral daemon is
\* already running'), a daemon of the configuration is running: a thread is
\* between its successful lock.acquire() and its lock.release() in
\* start_maestral_daemon. A probe by is_running() does not count as one.
C35_StartFailsOnlyWhenRunning ==
    [][/\ lock_result' # lock_result
       /\ lock_result'.call = "start_maestral_daemon"
       /\ lock_result'.value = "RuntimeError"
       => \E pt \in ProcThreads : daemon_pc[pt] = "running"]_vars

\* ------------------------------------------------ monitor: further claims

\* The steps of a start() that has begun
StartStep ==
    \/ StartSetRunning \/ StartClearSyncing \/ StartSetConnected
    \/ StartSetStartup \/ StartThread \/ StartClearPaused

\* ------------------------------------- monitor: SyncErrors in a sync cycle
\* The variables of the other parts that a SyncError in a cycle leaves alone
syncErrorUnchanged ==
    <<indexVars, remote_cursor, changes, excluded_items, queued_for_download,
      apply_result, normVars, handlerVars, upVars, conflictVars, roundVars, daemonVars,
      rootVars, diskVars, fetchVars>>

\* download_worker: the remote client raises a SyncError for dbxp in
\* wait_for_remote_changes; catch_sync_issues records it and returns False, so
\* has_changes is false and the cycle ends
DownloadPollSyncError(t, dbxp) ==
    /\ pc[t] = "d_poll"
    /\ Fails
    /\ sync_errors' = sync_errors \cup {dbxp}
    /\ Goto(t, "d_chk_running")
    /\ UNCHANGED <<flagVars, gen, lock, ops, itemVars, last_cursor, download_errors>>
    /\ UNCHANGED syncErrorUnchanged

\* download_worker: the remote client raises a SyncError for dbxp in
\* list_remote_changes; catch_sync_issues records it and returns False,
\* apply_remote_changes(False) returns False, and `downloaded, _ = False` raises
\* a TypeError, which `except Exception` handles
DownloadListSyncError(t, dbxp) ==
    /\ pc[t] = "d_batch"
    /\ Release(t)
    /\ Fails
    /\ sync_errors' = sync_errors \cup {dbxp}
    /\ Goto(t, "e_fatal1")
    /\ UNCHANGED <<flagVars, gen, ops, itemVars, last_cursor, download_errors>>
    /\ UNCHANGED syncErrorUnchanged

\* download_worker: the remote client raises a SyncError for dbxp while
\* _create_local_entry downloads it; catch_sync_issues records it in sync_errors
\* and download_errors, and apply_remote_changes goes on and saves the cursor
DownloadApplySyncError(t, dbxp) ==
    /\ pc[t] = "d_batch"
    /\ Release(t)
    /\ Fails
    /\ sync_errors' = sync_errors \cup {dbxp}
    /\ download_errors' = download_errors \cup {dbxp}
    /\ last_cursor' = 1
    /\ Goto(t, "loop")
    /\ UNCHANGED <<flagVars, gen, ops, itemVars>>
    /\ UNCHANGED syncErrorUnchanged

\* upload_worker: the remote client raises a SyncError for dbxp while _apply_event
\* uploads it; catch_sync_issues records it and apply_local_changes goes on
UploadBatchSyncError(t, dbxp) ==
    /\ pc[t] = "u_batch"
    /\ Release(t)
    /\ Fails
    /\ sync_errors' = sync_errors \cup {dbxp}
    /\ Goto(t, "loop")
    /\ UNCHANGED <<flagVars, gen, ops, itemVars, last_cursor, download_errors>>
    /\ UNCHANGED syncErrorUnchanged

\* download_worker_added_item: the remote client raises a SyncError in
\* get_remote_item(dbx_path).  For a file or a deleted item it is raised in
\* _create_local_entry(md), and catch_sync_issues records it in sync_errors and,
\* md being a Metadata argument, in download_errors; for a folder it is raised in
\* get_remote_folder(dbx_path), whose arguments hold no Metadata, and is recorded
\* in sync_errors only.  get_remote_item then discards the path from
\* pending_downloads.
AddedBatchSyncError(t, is_folder) ==
    /\ pc[t] = "a_batch"
    /\ Release(t)
    /\ Fails
    /\ sync_errors' = sync_errors \cup {ItemPath(dbx_path[t[1]])}
    /\ download_errors' = IF is_folder THEN download_errors
                          ELSE download_errors \cup {Lower(ItemPath(dbx_path[t[1]]))}
    /\ pending_downloads' = pending_downloads \ {dbx_path[t[1]]}
    /\ dbx_path' = [dbx_path EXCEPT ![t[1]] = 0]
    /\ Goto(t, "loop")
    /\ UNCHANGED <<flagVars, gen, ops, queued_newly_included_downloads, last_cursor>>
    /\ UNCHANGED syncErrorUnchanged

NextSyncError ==
    \/ NextWorker \/ Start \/ StartStep \/ NextEnv
    \/ \E t \in Workers, dbxp \in DownPaths :
          \/ DownloadPollSyncError(t, dbxp) \/ DownloadListSyncError(t, dbxp)
          \/ DownloadApplySyncError(t, dbxp) \/ UploadBatchSyncError(t, dbxp)
    \/ \E t \in Workers, is_folder \in BOOLEAN : AddedBatchSyncError(t, is_folder)

SpecSyncError == Init /\ [][NextSyncError]_vars

\* C24: a get_remote_item of the added-item worker that an exception leaves
\* keeps its path in pending_downloads; one that fails with a SyncError leaves
\* its path in download_errors; and the startup worker has called
\* get_remote_item for every pending path when it leaves its retry loop, which
\* comes before syncing.set().
C24_FailedDownloadsRetried ==
    [][\A t \in Workers :
          /\ pc[t] = "a_batch" /\ pc'[t] \in {"e_conn1", "e_fatal1"}
                => dbx_path[t[1]] \in pending_downloads'
          /\ pc[t] = "a_batch" /\ sync_errors' # sync_errors
                => Lower(ItemPath(dbx_path[t[1]])) \in download_errors'
          /\ pc[t] = "s_batch2" /\ pc'[t] = "s_chk2" => pending_downloads' = {}]_vars

\* C39: when the added-item worker is done with a path it took from
\* queued_newly_included_downloads (it found sync paused or stopped, or its
\* get_remote_item returned or raised), the download went through without an
\* error, or the path is in pending_downloads or in download_errors.
C39_IncludedPathNotDropped ==
    [][\A t \in Workers :
          pc[t] \in {"a_pending", "a_batch"} /\ pc'[t] # pc[t] =>
             \/ pc[t] = "a_batch" /\ faults' = faults
             \/ dbx_path[t[1]] \in pending_downloads'
             \/ Lower(ItemPath(dbx_path[t[1]])) \in download_errors']_vars

\* C19: the step in which a SyncError of the remote client is recorded in
\* sync_errors sends no worker to the handler that clears `running`, and ends no
\* worker.
C19_SyncErrorNotFatal ==
    [][sync_errors' # sync_errors =>
         \A t \in Workers : pc'[t] = pc[t] \/ pc'[t] \notin {"e_fatal1", "done", "crashed"}]_vars

\* ------------------------------------------- monitor: rebuild_index
\* rebuild_index(): self.pause(), of which this is paused_by_user.set()
RebuildPause ==
    /\ pc[User] = "idle" /\ Events < MaxEvents
    /\ ops' = ops + 1
    /\ paused_by_user' = TRUE
    /\ Goto(User, "b_syncing")
    /\ UNCHANGED <<syncing, startup, connected, running, gen, lock, envVars,
                   itemVars, last_cursor>>
    /\ UNCHANGED otherVars

\* pause(): self.syncing.clear()
RebuildPauseClearSyncing ==
    /\ pc[User] = "b_syncing"
    /\ syncing' = FALSE
    /\ Goto(User, "b_idle1")
    /\ UNCHANGED <<startup, connected, paused_by_user, running, gen, lock, envVars, ops,
                   itemVars, last_cursor>>
    /\ UNCHANGED otherVars

\* pause(): _wait_for_idle(), self.sync.lock.acquire()
RebuildWaitForIdleAcquire ==
    /\ pc[User] = "b_idle1"
    /\ Acquire(User)
    /\ Goto(User, "b_idle2")
    /\ UNCHANGED <<flagVars, gen, envVars, ops, itemVars, last_cursor>>
    /\ UNCHANGED otherVars

\* pause(): _wait_for_idle(), self.sync.lock.release()
RebuildWaitForIdleRelease ==
    /\ pc[User] = "b_idle2"
    /\ Release(User)
    /\ Goto(User, "b_last_sync")
    /\ UNCHANGED <<flagVars, gen, envVars, ops, itemVars, last_cursor>>
    /\ UNCHANGED otherVars

\* rebuild_index(): self.sync.last_sync = 0.0
RebuildResetLastSync ==
    /\ pc[User] = "b_last_sync"
    /\ last_sync' = 0
    /\ Goto(User, "b_last_cursor")
    /\ UNCHANGED <<flagVars, gen, lock, envVars, ops, itemVars, last_cursor>>
    /\ UNCHANGED <<indexVars, downVars, normVars, handlerVars, now, retrieved, up_batch,
                   queued_for_upload, upload_results, upload_raised, conflictVars,
                   roundVars, daemonVars, rootVars, diskVars, fetchVars>>

\* rebuild_index(): self.sync.last_cursor = ''
RebuildResetLastCursor ==
    /\ pc[User] = "b_last_cursor"
    /\ last_cursor' = 0
    /\ Goto(User, "b_clear_index")
    /\ UNCHANGED <<flagVars, gen, lock, envVars, ops, itemVars>>
    /\ UNCHANGED otherVars

\* rebuild_index(): self.sync.clear_rev_index()
RebuildClearRevIndex ==
    /\ pc[User] = "b_clear_index"
    /\ rev_dict_cache' = <<>>
    /\ Goto(User, "b_restart")
    /\ UNCHANGED <<flagVars, gen, lock, envVars, ops, itemVars, last_cursor>>
    /\ UNCHANGED <<index_ops, downVars, normVars, handlerVars, upVars, conflictVars,
                   roundVars, daemonVars, rootVars, diskVars, fetchVars>>

\* rebuild_index(): `if not self.running.is_set(): self.start()`, of which this
\* is the binding of the new threads, `else: self.resume()`, of which this is the
\* test of paused_by_user and startup.set()
RebuildRestart ==
    /\ pc[User] = "b_restart"
    /\ IF ~running[gen]
         THEN /\ gen < MaxStarts
              /\ gen' = gen + 1
              /\ \/ Goto(User, "st_running")
                 \/ Goto(User, "idle")             \* InotifyError: return
              /\ UNCHANGED startup
         ELSE /\ IF paused_by_user
                   THEN startup' = TRUE /\ Goto(User, "r_unpause")
                   ELSE UNCHANGED startup /\ Goto(User, "idle")
              /\ UNCHANGED gen
    /\ UNCHANGED <<syncing, connected, paused_by_user, running, lock, envVars, ops,
                   itemVars, last_cursor>>
    /\ UNCHANGED otherVars

RebuildIndex ==
    \/ RebuildPause \/ RebuildPauseClearSyncing
    \/ RebuildWaitForIdleAcquire \/ RebuildWaitForIdleRelease
    \/ RebuildResetLastSync \/ RebuildResetLastCursor \/ RebuildClearRevIndex
    \/ RebuildRestart

\* the user starts the monitor and rebuilds the index
\* One step of the worker thread t when the user includes no new item: the
\* added-item worker stays in queued_newly_included_downloads.get()
QuietWorkerStep(t) ==
       \/ WorkerLoop(t)
       \/ OnConnectionError1(t) \/ OnConnectionError2(t)
       \/ OnFatalError1(t) \/ OnFatalError2(t)
       \/ ConnProbe(t) \/ ConnCheckConnected(t) \/ ConnCheckPaused(t)
       \/ ConnSetStartup(t) \/ ConnSetConnected(t)
       \/ StartupWait(t) \/ StartupAssert(t) \/ StartupLock(t)
       \/ StartupInitialDownload(t) \/ StartupCheckRunning1(t)
       \/ StartupRetryAndUpload(t) \/ StartupCheckRunning2(t)
       \/ StartupCheckPaused(t) \/ StartupSetSyncing(t)
       \/ StartupClearStartup(t) \/ StartupExit(t)
       \/ SyncingWait(t) \/ CheckRunning(t) \/ CheckSyncing(t)
       \/ DownloadPoll(t) \/ DownloadLock(t) \/ DownloadBatch(t)
       \/ UploadCollect(t) \/ UploadLock(t) \/ UploadBatch(t)

NextRebuild ==
    \/ \E t \in Workers : QuietWorkerStep(t)
    \/ Start \/ StartStep \/ ResumeClearPaused \/ RebuildIndex

SpecRebuild == Init /\ [][NextRebuild]_vars

\* ------------------------------------ monitor: the local folder is removed
\* The user moves or deletes the local Dropbox folder.
RemoveDropboxFolder ==
    /\ dropbox_path_isdir /\ Events < MaxEvents
    /\ ops' = ops + 1
    /\ dropbox_path_isdir' = FALSE
    /\ UNCHANGED <<flagVars, gen, lock, pc, envVars, itemVars, last_cursor, partVars, diskVars, fetchVars>>

NextRoot == NextWorker \/ Start \/ StartStep \/ NextEnv \/ RemoveDropboxFolder

SpecRoot == Init /\ [][NextRoot]_vars

\* C20: once the local Dropbox folder is missing, no step of the monitor creates
\* it again.
C20_MissingRootNotRecreated ==
    [][~dropbox_path_isdir => ~dropbox_path_isdir']_vars

\* The monitor with start() as the only call of the user: no pause(), resume() or
\* stop().  Threads are scheduled by the operating system
\* and start() runs to its end, so every thread that can take a step eventually
\* takes one.
NextLive == NextWorker \/ Start \/ StartStep \/ NextEnv

SpecLive ==
    /\ Init /\ [][NextLive]_vars
    /\ \A t \in Workers : WF_vars(WorkerStep(t))
    /\ WF_vars(StartStep)

AllWorkersAlive ==
    gen > 0 /\ \A role \in Roles : pc[<<gen, role>>] \notin {"unstarted", "done", "crashed"}

HandlingConnectionError == \E t \in Workers : pc[t] \in {"e_conn1", "e_conn2"}

\* C15: a ConnectionError observed by a worker while the monitor is syncing is
\* followed, once the connection is back and unless a fatal error stops the
\* monitor, by a state in which the error has been handled and the monitor is
\* syncing again: `syncing` set, `startup` clear, all workers alive.
C15_ReconnectResumesSyncing ==
    ((\E t \in Workers : pc[t] = "e_conn1") /\ syncing /\ ~startup)
      ~> (\/ ~running[gen]
          \/ ~HandlingConnectionError /\ syncing /\ ~startup /\ AllWorkersAlive)

\* C16: once start() has begun on a stopped monitor, `syncing` is eventually set,
\* unless a remote call fails; there is no pause() call.
C16_StartReachesSyncing ==
    (pc[User] = "st_running") ~> (syncing \/ faults > 0)

\* C17: a start() that returns because the observer could not be started (inotify
\* limit) leaves `running` clear and none of the five worker threads started.
C17_InotifyErrorStartsNothing ==
    [][pc[User] = "idle" /\ gen' # gen /\ pc'[User] = "idle" =>
         /\ ~running'[gen']
         /\ \A role \in Roles : pc'[<<gen', role>>] = "unstarted"]_vars

C17_Witness ==
    /\ gen > 0 /\ pc[User] = "idle" /\ ~running[gen]
    /\ \A role \in Roles : pc[<<gen, role>>] = "unstarted"

\* C18: in every worker the handler of a ConnectionError clears `syncing`, then
\* `connected`, and leaves `running` as it is; the handler of an authorization
\* error, of another MaestralApiError or of an unexpected exception clears
\* `running`, then `syncing`; and no worker ends on an exception that has not
\* cleared `running` and `syncing`.
C18_ErrorTriage ==
    [][\A t \in Workers :
          /\ pc[t] = "e_conn1" /\ pc'[t] # pc[t] => ~syncing' /\ running' = running
          /\ pc[t] = "e_conn2" /\ pc'[t] # pc[t] => ~connected' /\ running' = running
          /\ pc[t] = "e_fatal1" /\ pc'[t] # pc[t] => ~running'[t[1]]
          /\ pc[t] = "e_fatal2" /\ pc'[t] # pc[t] => ~syncing' /\ ~running'[t[1]]
          /\ pc[t] # "crashed" /\ pc'[t] = "crashed" => ~running'[t[1]] /\ ~syncing']_vars

\* C27: a startup worker that has returned from startup.wait() and is about to
\* evaluate `assert not syncing.is_set()` finds `syncing` clear.
C27_StartupAssertHolds ==
    \A t \in Workers : pc[t] = "s_assert" => ~syncing

\* C14: when stop() returns on a monitor that was running, the five workers have
\* terminated, also those that were waiting for `syncing`, for `startup` or for
\* an item of the queue when stop() was called.
C14_StopTerminatesWorkers ==
    [][pc[User] = "x_join_up" /\ pc'[User] = "idle" =>
         \A role \in Roles : pc'[<<gen, role>>] \in {"done", "crashed"}]_vars

====
